---------------------------- MODULE Spec2Model ----------------------------
(***************************************************************************)
(* A model of the queue-position prediction core of the VLK queue bot:     *)
(* the calendar ordinal mapper and the identifier normaliser of            *)
(* vlk_bot/utils.py, the status classification of vlk_bot/sync.py and the  *)
(* prediction engine of vlk_bot/prediction.py.                             *)
(*                                                                         *)
(* Every component has its own specification (SpecOrd, SpecId, ...) over   *)
(* its own variables; the variables of the other components are parked at *)
(* a fixed value and left unchanged.                                       *)
(***************************************************************************)
EXTENDS Integers, Sequences, FiniteSets, TLC

VARIABLES
    \* ---- calendar ordinal mapper (utils.py) ----
    ordPc,      \* "start" before the calls, "done" after them
    date,       \* date_obj, as Python's date.toordinal()
    gap,        \* a second date is date + gap days
    ord,        \* get_ordinal_date(date)
    ord2,       \* get_ordinal_date(date + gap)
    back,       \* get_date_from_ordinal(ord)
    \* ---- identifier normaliser (utils.py) ----
    idPc,       \* "start" before the call, "done" after it
    id_val,     \* the argument: a string, as the sequence of its characters
    numeric,    \* what id_to_numeric returned
    \* ---- attendance record store (sync.py) ----
    sheetPc,      \* "start", then "extracted" or "parsed"
    rows,         \* the rows of the daily sheet's CSV file, each a list of cells
    attended_ids, \* what extract_attended_ids_from_sheet returned
    stats,        \* what parse_daily_sheet_attendance returned
    \* ---- prediction engine (prediction.py) ----
    predPc,          \* "start", "generated" (the JSON written), "predicted"
    cache,           \* the cached daily sheets: [date, rows], by file name
    attendance_json, \* the attendance JSON file: [exists, data]
    user_id,         \* the identifier the prediction is asked for
    prediction,      \* what calculate_prediction_with_daily_data gave
    \* ---- eligibility checker (handlers_join.py, VLK_Zakrevskoho_81_BOT.py) ----
    eligPc,       \* "start", then "handlers_join" or "BOT": which one ran
    stats_table,  \* what get_stats_data gives: the summary table
    queue_id,     \* extract_main_id of the identifier asked about
    prev_booking, \* the date of the identifier's earlier booking
    prev_status,  \* the status of that booking
    current_day,  \* datetime.date.today()
    eligibility,  \* what check_id_for_queue returned
    \* ---- download_daily_sheet (sync.py) ----
    dl,           \* the call of download_daily_sheet
    \* ---- sync_daily_sheets (sync.py) ----
    syncPc,       \* "idle" between calls, "loop" in the loop over the sheets
    snapshots,    \* the cached daily sheets: "absent", "stale" or "current"
    stats_mtime,  \* _stats.csv: "absent", changed "before" today, or "today"
    summary,      \* the summary table, as the remote and _stats.csv hold it
    corpus,       \* the attendance JSON file: [exists, data]
    corpus_fresh, \* it is younger than SYNC_CACHE_TTL_MINUTES
    run,          \* the flags and the locals of the call
    at_call,      \* what was on the disk when the call began
    prior,        \* the call before this one, and the disk when it began
    \* ---- handlers on the event loop (handlers_join.py, prediction.py) ----
    loop_owner,    \* the handler the event loop is running, or "None"
    position,      \* where each handler is in its code
    json_on_disk,  \* attendance_data.json: [exists, writes, partial]
    cache_writes,  \* how many times daily sheets were written into the cache
    loaded_copy,   \* what each handler's load_attendance_from_json read
    \* ---- calculate_date_probability (prediction.py) ----
    probPc,       \* "start" before the call, "done" after it
    prob_date,    \* the argument date_obj
    prob_dist,    \* the argument dist
    probability,  \* what calculate_date_probability returned
    \* ---- the dialogue of joining the queue (handlers_join.py) ----
    joinState,    \* the state of the conversation
    user_data,    \* context.user_data
    queue_df,     \* config.queue_df, the queue in memory
    queue_sheet,  \* the rows of the queue sheet
    reply,        \* the last reply of the bot
    buttons,      \* the date buttons of the last reply
    date_inputs,  \* the inputs join_get_date has had, each with its reply
    \* ---- the admin commands (handlers_admin.py) ----
    ADMIN_IDS,   \* config.ADMIN_IDS
    BANLIST,     \* config.BANLIST
    config,      \* the options of config['BOT_SETTINGS']
    config_ini,  \* the options in the file config.ini
    command,     \* the last command: its name, its sender, its arguments and its number
    \* ---- the cleanup of the queue (handlers_admin.py) ----
    cleanupPc,       \* where perform_queue_cleanup is
    google_sheet,    \* the records of the Google Sheet
    memory_df,       \* config.queue_df
    before_cleanup,  \* the records the cleanup loaded
    cleaned,         \* what perform_queue_cleanup left
    \* ---- the two data sources of the prediction (prediction.py) ----
    pathsPc,      \* where the comparison of the two sources is
    day_files,    \* the cached daily sheets
    corpus_file,  \* attendance_data.json
    asked_id,     \* the identifier asked about
    by_json,      \* the outcomes with the attendance JSON loaded
    by_csv,       \* the outcomes when no attendance JSON can be loaded
    \* ---- the cancellation dialogue (handlers_cancel.py) ----
    cancelPc,      \* the state of the cancellation dialogue
    cancel_sheet,  \* the rows of the queue sheet
    cancel_df,     \* config.queue_df
    cancel_clock,  \* the second of datetime.now()
    cancel_calls,  \* the dialogues begun
    cancel_asked,  \* the last message to cancel_record_get_id and the queue it met
    cancel_reply,  \* the reply of the last handler
    \* ---- the visit poll (handlers_poll.py) ----
    pollPc,        \* whether the poll is open
    active_sheet,  \* the rows of the Active sheet
    poll_queue,    \* the rows the poll appended to the queue sheet
    status_file,   \* the status file (load_status_state)
    poll_data,     \* context.user_data of the poll
    poll_sent,     \* what the last handler sent
    poll_done,     \* the last handler, whether it saved a record, and the Active sheet it met
    poll_steps,    \* the callbacks and messages handled
    \* ---- the job check_new_daily_sheet (scheduler.py, bot.py) ----
    schedPc,      \* whether the job is scheduled
    sched_now,    \* the time of the next run
    bot_data,     \* context.bot_data
    sched_watch,  \* the sheet detected without a break and since when
    sched_polls,  \* the calls of send_visit_poll: the sheet and the time
    sched_last,   \* the last run: its time, what it detected, whether it sent the poll, and the watch before it
    \* ---- the job notify_status (scheduler.py) ----
    notifyPc,      \* whether the job is scheduled
    notify_queue,  \* the rows of the queue sheet
    notify_state,  \* the status file
    notify_sent,   \* the notifications of the last run
    notify_fresh,  \* the queue is as the last run that read it met it
    notify_runs,   \* the runs made
    notify_last    \* the last run: the queue and the status file it met

ordVars   == <<ordPc, date, gap, ord, ord2, back>>
idVars    == <<idPc, id_val, numeric>>
sheetVars == <<sheetPc, rows, attended_ids, stats>>
predVars  == <<predPc, cache, attendance_json, user_id, prediction>>
eligVars  == <<eligPc, stats_table, queue_id, prev_booking, prev_status,
               current_day, eligibility>>
dlVars    == <<dl>>
syncVars  == <<syncPc, snapshots, stats_mtime, summary, corpus, corpus_fresh,
               run, at_call, prior>>
concVars  == <<loop_owner, position, json_on_disk, cache_writes, loaded_copy>>
probVars  == <<probPc, prob_date, prob_dist, probability>>
joinVars  == <<joinState, user_data, queue_df, queue_sheet, reply, buttons, date_inputs>>
adminVars == <<ADMIN_IDS, BANLIST, config, config_ini, command>>
cleanupVars == <<cleanupPc, google_sheet, memory_df, before_cleanup, cleaned>>
pathsVars == <<pathsPc, day_files, corpus_file, asked_id, by_json, by_csv>>
cancelVars == <<cancelPc, cancel_sheet, cancel_df, cancel_clock, cancel_calls, cancel_asked, cancel_reply>>
pollVars  == <<pollPc, active_sheet, poll_queue, status_file, poll_data, poll_sent, poll_done, poll_steps>>
schedVars == <<schedPc, sched_now, bot_data, sched_watch, sched_polls, sched_last>>
notifyVars == <<notifyPc, notify_queue, notify_state, notify_sent, notify_fresh, notify_runs, notify_last>>
vars == <<ordVars, idVars, sheetVars, predVars, eligVars, dlVars, syncVars, concVars, probVars, joinVars, adminVars, cleanupVars, pathsVars, cancelVars, pollVars, schedVars, notifyVars>>

\* The value of a variable that holds nothing yet (Python's None).
None == "None"

(***************************************************************************)
(* datetime.date: a date is its proleptic Gregorian ordinal, as            *)
(* date.toordinal() gives it; date subtraction is integer subtraction.     *)
(***************************************************************************)
IsLeap(y) == (y % 4 = 0) /\ ((y % 100 # 0) \/ (y % 400 = 0))

DaysInMonth(y, m) ==
    CASE m \in {1, 3, 5, 7, 8, 10, 12} -> 31
      [] m \in {4, 6, 9, 11} -> 30
      [] OTHER -> IF IsLeap(y) THEN 29 ELSE 28

RECURSIVE DaysBeforeMonth(_, _)
DaysBeforeMonth(y, m) ==
    IF m = 1 THEN 0 ELSE DaysBeforeMonth(y, m - 1) + DaysInMonth(y, m - 1)

\* datetime.date(y, m, d).toordinal()
Toordinal(y, m, d) ==
    LET p == y - 1
    IN  p * 365 + (p \div 4) - (p \div 100) + (p \div 400)
          + DaysBeforeMonth(y, m) + d

\* date.weekday(): 0 is Monday, 6 is Sunday
Weekday(d) == (d + 6) % 7

Min(a, b) == IF a <= b THEN a ELSE b
Max(a, b) == IF a >= b THEN a ELSE b

(***************************************************************************)
(* utils.py: the calendar ordinal mapper.                                  *)
(***************************************************************************)
\* anchor = datetime.date(1970, 1, 5)
Anchor == Toordinal(1970, 1, 5)

\* A clamp of the weekend to Friday instead of to the following Monday.
get_ordinal_date_fridayClamp(date_obj) ==
    LET diff  == date_obj - Anchor
        weeks == diff \div 7
        days  == diff % 7
    IN  weeks * 5 + Min(days, 4)

\* No clamp of the weekend at all.
get_ordinal_date_noClamp(date_obj) ==
    LET diff  == date_obj - Anchor
        weeks == diff \div 7
        days  == diff % 7
    IN  weeks * 5 + days

\* A division that truncates towards zero instead of flooring.
get_ordinal_date_truncDiv(date_obj) ==
    LET diff  == date_obj - Anchor
        weeks == IF diff >= 0 THEN diff \div 7 ELSE -((-diff) \div 7)
        days  == diff - weeks * 7
    IN  weeks * 5 + Min(days, 5)

get_ordinal_date(date_obj) ==
    LET diff  == date_obj - Anchor
        weeks == diff \div 7
        days  == diff % 7
    IN  weeks * 5 + Min(days, 5)

\* The weekends forgotten on the way back.
get_date_from_ordinal_noWeekends(ordinal) ==
    LET weeks == ordinal \div 5
        days  == ordinal % 5
    IN  Anchor + (weeks * 5 + days)

\* `ordinal` is an integer here: see IntOf for int() of a float.
get_date_from_ordinal(ordinal) ==
    LET weeks == ordinal \div 5
        days  == ordinal % 5
        total_days == weeks * 7 + days
    IN  Anchor + total_days

(***************************************************************************)
(* SpecOrd: one date of a five-year window (and the weeks before the       *)
(* anchor), a second date at most MaxGap days later, and the calls of the  *)
(* two conversions on them.                                                *)
(***************************************************************************)
DaysBefore == 35
WindowDays == 1826
MaxGap     == 7

Dates == (Anchor - DaysBefore) .. (Anchor + WindowDays)

OrdInit ==
    /\ ordPc = "start"
    /\ date \in Dates
    /\ gap \in 0 .. MaxGap
    /\ ord = None /\ ord2 = None /\ back = None

OrdPark ==
    /\ ordPc = "parked" /\ date = 0 /\ gap = 0
    /\ ord = None /\ ord2 = None /\ back = None

Convert ==
    /\ ordPc = "start"
    /\ ord'  = get_ordinal_date(date)
    /\ ord2' = get_ordinal_date(date + gap)
    /\ back' = get_date_from_ordinal(get_ordinal_date(date))
    /\ ordPc' = "done"
    /\ UNCHANGED <<date, gap>>

(***************************************************************************)
(* Strings.  A Python str is the sequence of its characters, each a        *)
(* one-character string.                                                   *)
(***************************************************************************)
Digits == {"0", "1", "2", "3", "4", "5", "6", "7", "8", "9"}

\* int(c) of one decimal digit
DigitVal(c) ==
    CASE c = "0" -> 0 [] c = "1" -> 1 [] c = "2" -> 2 [] c = "3" -> 3
      [] c = "4" -> 4 [] c = "5" -> 5 [] c = "6" -> 6 [] c = "7" -> 7
      [] c = "8" -> 8 [] c = "9" -> 9

\* str.isdigit(): not empty, and every character a digit
IsDigitStr(s) == Len(s) > 0 /\ \A i \in 1 .. Len(s) : s[i] \in Digits

\* The value of a string of decimal digits (0 for the empty string).
RECURSIVE DecVal(_)
DecVal(s) ==
    IF Len(s) = 0 THEN 0
    ELSE DecVal(SubSeq(s, 1, Len(s) - 1)) * 10 + DigitVal(s[Len(s)])

RECURSIVE Pow10(_)
Pow10(k) == IF k = 0 THEN 1 ELSE 10 * Pow10(k - 1)

\* str.strip(): the whitespace at both ends removed
RECURSIVE Strip(_)
Strip(s) ==
    IF Len(s) = 0 THEN s
    ELSE IF s[1] = " " THEN Strip(Tail(s))
    ELSE IF s[Len(s)] = " " THEN Strip(SubSeq(s, 1, Len(s) - 1))
    ELSE s

\* The index of the first c in s, or 0.
RECURSIVE IndexOf(_, _, _)
IndexOf(s, c, from) ==
    IF from > Len(s) THEN 0
    ELSE IF s[from] = c THEN from
    ELSE IndexOf(s, c, from + 1)

\* s.split(c)
RECURSIVE Split(_, _)
Split(s, c) ==
    LET i == IndexOf(s, c, 1)
    IN  IF i = 0 THEN <<s>>
        ELSE <<SubSeq(s, 1, i - 1)>> \o Split(SubSeq(s, i + 1, Len(s)), c)

\* re.match(r'^(\d+)', s).group(1), or the empty string without a match
RECURSIVE LeadingDigits(_)
LeadingDigits(s) ==
    IF Len(s) > 0 /\ s[1] \in Digits
    THEN <<s[1]>> \o LeadingDigits(Tail(s))
    ELSE <<>>

(***************************************************************************)
(* Numbers.  A float is kept exactly, as num / den with den a power of     *)
(* ten, or is one of the special values nan and inf; "none" is Python's    *)
(* None and "ValueError" the exception raised by int() and float().        *)
(***************************************************************************)
Num(n, d)     == [kind |-> "num", num |-> n, den |-> d]
NoValue       == [kind |-> "none", num |-> 0, den |-> 1]
NanValue      == [kind |-> "nan", num |-> 0, den |-> 1]
InfValue(sgn) == [kind |-> "inf", num |-> sgn, den |-> 1]
ValueError    == [kind |-> "ValueError", num |-> 0, den |-> 1]

\* a == b of two floats that are numbers
NumEq(a, b) == a.num * b.den = b.num * a.den

\* math.floor of a float that is a number
WholePart(a) == a.num \div a.den

\* The sign a numeric literal starts with, and the literal without it.
SignOf(s)   == IF Len(s) > 0 /\ s[1] = "-" THEN -1 ELSE 1
Unsigned(s) == IF Len(s) > 0 /\ s[1] \in {"+", "-"} THEN Tail(s) ELSE s

\* int(s) of a str: surrounding whitespace, an optional sign, decimal
\* digits.  (The inputs hold no "_", which int() accepts between digits.)
IntParse(s) ==
    LET t == Strip(s)
        u == Unsigned(t)
    IN  IF IsDigitStr(u) THEN Num(SignOf(t) * DecVal(u), 1) ELSE ValueError

\* float(s) of a str: surrounding whitespace, an optional sign, then inf,
\* infinity, nan, or decimal digits with at most one point and a digit on
\* one side of it at least.  (The inputs hold no "_" and no exponent.)
FloatParse(s) ==
    LET t   == Strip(s)
        u   == Unsigned(t)
        sgn == SignOf(t)
        dot == IndexOf(u, ".", 1)
        ip  == IF dot = 0 THEN u ELSE SubSeq(u, 1, dot - 1)
        fp  == IF dot = 0 THEN <<>> ELSE SubSeq(u, dot + 1, Len(u))
        digitsOnly(x) == \A i \in 1 .. Len(x) : x[i] \in Digits
    IN  CASE u = <<"n", "a", "n">> -> NanValue
          [] u \in {<<"i", "n", "f">>,
                    <<"i", "n", "f", "i", "n", "i", "t", "y">>} -> InfValue(sgn)
          [] OTHER ->
               IF digitsOnly(ip) /\ digitsOnly(fp) /\ Len(ip) + Len(fp) > 0
               THEN Num(sgn * (DecVal(ip) * Pow10(Len(fp)) + DecVal(fp)),
                        Pow10(Len(fp)))
               ELSE ValueError

(***************************************************************************)
(* utils.py: the identifier normaliser (daily_sheets_sync.py holds a copy  *)
(* of the same function).                                                  *)
(***************************************************************************)
\* The try block of id_to_numeric.
IdTry(s) ==
    IF "/" \in {s[i] : i \in 1 .. Len(s)}
    THEN LET parts == Split(s, "/")
             main  == IntParse(parts[1])
             sub   == IF Len(parts) > 1 /\ IsDigitStr(parts[2])
                      THEN DecVal(parts[2]) ELSE 0
         IN  IF main.kind = "ValueError" THEN ValueError
             ELSE Num(main.num * 100 + sub, 100)
    ELSE FloatParse(s)

\* The except ValueError block of id_to_numeric.
IdExcept(s) ==
    LET match == LeadingDigits(s)
    IN  IF Len(match) > 0 THEN Num(DecVal(match), 1) ELSE NoValue

\* The suffix added as tenths instead of hundredths.
id_to_numeric_tenths(v) ==
    LET s == Strip(v)
        r == IdTry(s)
    IN  IF Len(s) = 0 THEN NoValue
        ELSE IF r.kind = "ValueError" THEN IdExcept(s)
        ELSE IF "/" \in {s[i] : i \in 1 .. Len(s)}
             THEN Num(r.num - (r.num % 100) + 10 * (r.num % 100), 100)
             ELSE r

id_to_numeric(v) ==
    LET s == Strip(v)
        r == IdTry(s)
    IN  IF Len(s) = 0 THEN NoValue
        ELSE IF r.kind = "ValueError" THEN IdExcept(s)
        ELSE r


(***************************************************************************)
(* SpecId: one string, of at most MaxLen characters of IdAlphabet or one   *)
(* of IdExamples, and the call of id_to_numeric on it.                     *)
(***************************************************************************)
MaxLen == 4

IdAlphabet == {"0", "1", "7", "/", "-", ".", " ", "a"}

IdExamples == {
    <<"4", "3", "5", "5">>,
    <<"4", "3", "5", "5", "/", "1">>,
    <<"4", "3", "5", "5", "/", "2", "3">>,
    <<"4", "3", "5", "5", "/", "1", "0", "0">>,
    <<"4", "3", "5", "6">>,
    <<"1", "/", "1", "5", "0">>,
    <<"a", "b", "c">>,
    <<>>,
    <<"-", "5">>,
    <<".", "5">>,
    <<"+", "5">>,
    <<"n", "a", "n">>,
    <<"i", "n", "f">>,
    <<"-", "i", "n", "f">>,
    <<"/", "1">>,
    <<" ", "4", "3", "5", "5", "/", "1", " ">> }

IdInputs == IdExamples \cup UNION {[1 .. k -> IdAlphabet] : k \in 0 .. MaxLen}

IdInit ==
    /\ idPc = "start"
    /\ id_val \in IdInputs
    /\ numeric = NoValue

IdPark ==
    /\ idPc = "parked" /\ id_val = <<>> /\ numeric = NoValue

Normalize ==
    /\ idPc = "start"
    /\ numeric' = id_to_numeric(id_val)
    /\ idPc' = "done"
    /\ UNCHANGED id_val

(***************************************************************************)
(* sync.py: the attendance record store.                                   *)
(*                                                                         *)
(* A cell is a string.  The position and identifier cells are sequences of *)
(* characters.  A status cell is a sequence of fragments: a word of the    *)
(* status vocabulary, written in Latin letters, or a separator.  No        *)
(* fragment holds another or overlaps one, so that the substring test on   *)
(* the fragments is the substring test on the text.                        *)
(*   "zaishov"              the 'entered' marker (sync.py:265)             *)
(*   "ne", " ", "zaishov"   the 'did not enter' marker                     *)
(*   "ne", " ", "z'yavyvsya"  the 'no-show' marker                         *)
(*   "vidklav"              the 'postponed' marker (sync.py:269)           *)
(*   "za zhyvoyu chergoyu"  the 'live queue' marker (sync.py:324)          *)
(*   "Zaishov", "Ne", ...   the same words with capital letters            *)
(***************************************************************************)
EnteredMarker    == <<"zaishov">>
NotEnteredMarker == <<"ne", " ", "zaishov">>
NoShowMarker     == <<"ne", " ", "z'yavyvsya">>
PostponedMarker  == <<"vidklav">>
LiveQueueMarker  == <<"za zhyvoyu chergoyu">>

\* The first cell of the header row: the numero sign.
HeaderMarker == <<"No">>

\* str.lower() of one fragment
LowerFragment(c) ==
    CASE c \in {"Zaishov", "ZAISHOV"} -> "zaishov"
      [] c \in {"Ne", "NE"} -> "ne"
      [] c \in {"Z'yavyvsya", "Z'YAVYVSYA"} -> "z'yavyvsya"
      [] c \in {"Vidklav", "VIDKLAV"} -> "vidklav"
      [] c \in {"Za zhyvoyu chergoyu", "ZA ZHYVOYU CHERGOYU"}
            -> "za zhyvoyu chergoyu"
      [] OTHER -> c

\* str.lower()
Lower(s) == [i \in 1 .. Len(s) |-> LowerFragment(s[i])]

\* m in s
Contains(s, m) ==
    \E i \in 0 .. (Len(s) - Len(m)) : SubSeq(s, i + 1, i + Len(m)) = m

\* any(char.isdigit() for char in s)
HasDigit(s) == \E i \in 1 .. Len(s) : s[i] \in Digits

\* The 'entered' marker alone decides: the negations are not looked at.
IsEntered_markerOnly(status_lower) ==
    Contains(status_lower, EnteredMarker)

\* sync.py:265 and sync.py:323: the row counts as entered.
IsEntered(status_lower) ==
    /\ Contains(status_lower, EnteredMarker)
    /\ ~Contains(status_lower, NotEnteredMarker)
    /\ ~Contains(status_lower, NoShowMarker)

\* sync.py:267: the row counts as a no-show (when it is not entered).
IsNoShow(status_lower) ==
    \/ Contains(status_lower, NotEnteredMarker)
    \/ Contains(status_lower, NoShowMarker)

\* status_lower = status.lower()
StatusLower(status) == Lower(status)

\* The header taken to be the third row.
DataStart_fixed(rs, i) == 4

\* data_start_idx: the index (from 1) of the first row after the header
\* row, or 0 when no row's first cell is the header marker.
RECURSIVE DataStart(_, _)
DataStart(rs, i) ==
    IF i > Len(rs) THEN 0
    ELSE IF Len(rs[i]) > 0 /\ Strip(rs[i][1]) = HeaderMarker THEN i + 1
    ELSE DataStart(rs, i + 1)

\* The loop of extract_attended_ids_from_sheet over rows[i:].
RECURSIVE ExtractLoop(_, _)
ExtractLoop(rs, i) ==
    IF i > Len(rs) THEN <<>>
    ELSE
      LET row == rs[i]
          rest == ExtractLoop(rs, i + 1)
      IN  IF Len(row) < 3 THEN rest
          ELSE
            LET number    == Strip(row[1])
                person_id == Strip(row[2])
                status    == Strip(row[3])
                status_lower == StatusLower(status)
            IN  IF Len(number) = 0 \/ Len(person_id) = 0 \/ ~IsDigitStr(number)
                THEN rest
                ELSE IF ~HasDigit(person_id) THEN rest
                ELSE IF IsEntered(status_lower)
                THEN <<[id |-> person_id,
                        is_live |-> Contains(status_lower, LiveQueueMarker)]>>
                     \o rest
                ELSE rest

extract_attended_ids_from_sheet(rs) ==
    IF Len(rs) < 4 THEN <<>>
    ELSE LET data_start_idx == DataStart(rs, 1)
         IN  IF data_start_idx = 0 THEN <<>>
             ELSE ExtractLoop(rs, data_start_idx)

\* The counters of parse_daily_sheet_attendance.
NoCounts == [total |-> 0, attended |-> 0, no_show |-> 0, postponed |-> 0]

\* The loop of parse_daily_sheet_attendance over rows[i:].
RECURSIVE ParseLoop(_, _, _)
ParseLoop(rs, i, c) ==
    IF i > Len(rs) THEN c
    ELSE
      LET row == rs[i]
      IN  IF Len(row) < 3 THEN ParseLoop(rs, i + 1, c)
          ELSE
            LET number    == Strip(row[1])
                person_id == Strip(row[2])
                status    == Strip(row[3])
                status_lower == StatusLower(status)
            IN  IF Len(number) = 0 THEN ParseLoop(rs, i + 1, c)
                ELSE IF ~IsDigitStr(number) THEN ParseLoop(rs, i + 1, c)
                ELSE IF ~HasDigit(person_id) THEN ParseLoop(rs, i + 1, c)
                ELSE
                  LET t == [c EXCEPT !.total = @ + 1]
                  IN  ParseLoop(rs, i + 1,
                        IF IsEntered(status_lower)
                        THEN [t EXCEPT !.attended = @ + 1]
                        ELSE IF IsNoShow(status_lower)
                        THEN [t EXCEPT !.no_show = @ + 1]
                        ELSE IF Contains(status_lower, PostponedMarker)
                        THEN [t EXCEPT !.postponed = @ + 1]
                        ELSE t)

\* What parse_daily_sheet_attendance returns: None is [none |-> TRUE, ...];
\* attendance_rate is attended / total and is not kept.
parse_daily_sheet_attendance(rs) ==
    LET nothing == [none |-> TRUE, counts |-> NoCounts]
    IN  IF Len(rs) < 4 THEN nothing
        ELSE LET data_start_idx == DataStart(rs, 1)
             IN  IF data_start_idx = 0 THEN nothing
                 ELSE LET c == ParseLoop(rs, data_start_idx, NoCounts)
                      IN  IF c.total = 0 THEN nothing
                          ELSE [none |-> FALSE, counts |-> c]

(***************************************************************************)
(* SpecSheet: a daily sheet of some banner rows, the header row and one    *)
(* data row whose status is a text of at most MaxStatusLen fragments (or   *)
(* one of StatusExamples), and the calls of the two parsers on it.         *)
(***************************************************************************)
MaxStatusLen == 4
MaxBanner    == 2

StatusFragments ==
    {"zaishov", "Zaishov", "ne", "Ne", " ", "z'yavyvsya", "za zhyvoyu chergoyu"}

StatusExamples == {
    <<"Ne", " ", "zaishov", " ", "(", "ne", " ", "z'yavyvsya", ")">>,
    <<"Zaishov", " ", "za zhyvoyu chergoyu">>,
    <<"zaishov", " ", "ne", " ", "z'yavyvsya">>,
    <<"NE", " ", "ZAISHOV">>,
    <<"Vidklav">>,
    <<"vidklav", " ", "zaishov">>,
    <<>> }

Statuses ==
    StatusExamples
      \cup UNION {[1 .. k -> StatusFragments] : k \in 0 .. MaxStatusLen}

BannerRow == << <<"V", "L", "K">>, <<>>, <<>> >>
HeaderRow == << HeaderMarker, <<"I", "D">>, <<"S", "t", "a", "t", "u", "s">> >>
DataRow(status) == << <<"1">>, <<"4", "3", "5", "5">>, status >>

\* nBanner banner rows, the header row, the data row.
Sheet(nBanner, status) ==
    [i \in 1 .. nBanner |-> BannerRow] \o <<HeaderRow, DataRow(status)>>

SheetInit ==
    /\ sheetPc = "start"
    /\ \E n \in 0 .. MaxBanner, st \in Statuses : rows = Sheet(n, st)
    /\ attended_ids = <<>>
    /\ stats = [none |-> TRUE, counts |-> NoCounts]

SheetPark ==
    /\ sheetPc = "parked" /\ rows = <<>> /\ attended_ids = <<>>
    /\ stats = [none |-> TRUE, counts |-> NoCounts]

Extract ==
    /\ sheetPc = "start"
    /\ attended_ids' = extract_attended_ids_from_sheet(rows)
    /\ sheetPc' = "extracted"
    /\ UNCHANGED <<rows, stats>>

Parse ==
    /\ sheetPc = "start"
    /\ stats' = parse_daily_sheet_attendance(rows)
    /\ sheetPc' = "parsed"
    /\ UNCHANGED <<rows, attended_ids>>

(***************************************************************************)
(* SpecGrid: a grid of at most MaxRows rows, each of one of RowKinds, and  *)
(* the calls of the two parsers on it.  The header row may be anywhere, or *)
(* nowhere, or there twice.                                                *)
(*   "ok"       position 1, identifier 7, entered                          *)
(*   "padded"   position 2 and identifier 9/1 between blanks, entered from *)
(*              the live queue                                             *)
(*   "header"   the header row                                             *)
(*   "banner"   a banner row                                               *)
(*   "nonnum"   a position that is no number                               *)
(*   "blankpos" a blank position                                           *)
(*   "blankid"  a blank identifier                                         *)
(*   "nodigit"  an identifier without a digit                              *)
(*   "short"    a row of two cells                                         *)
(*   "absent"   position 6, identifier 4, did not enter                    *)
(***************************************************************************)
MaxRows == 4

RowKinds ==
    {"ok", "padded", "header", "banner", "nonnum", "blankpos", "blankid",
     "nodigit", "short", "absent"}

RowOf(kind) ==
    CASE kind = "ok"       -> << <<"1">>, <<"7">>, <<"Zaishov">> >>
      [] kind = "padded"   -> << <<" ", "2", " ">>, <<" ", "9", "/", "1", " ">>,
                                 <<"zaishov", " ", "za zhyvoyu chergoyu">> >>
      [] kind = "header"   -> HeaderRow
      [] kind = "banner"   -> BannerRow
      [] kind = "nonnum"   -> << <<"1", "a">>, <<"5">>, <<"Zaishov">> >>
      [] kind = "blankpos" -> << <<" ">>, <<"5">>, <<"Zaishov">> >>
      [] kind = "blankid"  -> << <<"3">>, <<" ">>, <<"Zaishov">> >>
      [] kind = "nodigit"  -> << <<"4">>, <<"a", "b">>, <<"Zaishov">> >>
      [] kind = "short"    -> << <<"5">>, <<"6">> >>
      [] kind = "absent"   -> << <<"6">>, <<"4">>, <<"Ne", " ", "zaishov">> >>

Grid(kinds) == [i \in 1 .. Len(kinds) |-> RowOf(kinds[i])]

Grids == {Grid(kinds) : kinds \in UNION {[1 .. n -> RowKinds] : n \in 0 .. MaxRows}}

GridInit ==
    /\ sheetPc = "start"
    /\ rows \in Grids
    /\ attended_ids = <<>>
    /\ stats = [none |-> TRUE, counts |-> NoCounts]

(***************************************************************************)
(* The prediction engine (vlk_bot/prediction.py) over the attendance       *)
(* record store (vlk_bot/sync.py).                                         *)
(*                                                                         *)
(* Numbers.  The weighted sums of the regression, the denominator and the  *)
(* predicted ordinal are kept exactly, as integers: a weight in            *)
(* hundredths, a mean ordinal in sixths of a day, the predicted ordinal    *)
(* rounded down to a thousandth of a day.  The squares, the quotients and  *)
(* the square root behind the margins of the intervals are computed in     *)
(* decimal floating point of four significant digits.                      *)
(***************************************************************************)
Abs(n) == IF n < 0 THEN -n ELSE n

\* The sum of a sequence of integers.
RECURSIVE SumSeq(_)
SumSeq(s) == IF Len(s) = 0 THEN 0 ELSE s[1] + SumSeq(Tail(s))

\* ---- decimal floating point: m * 10^e, m = 0 or 1000 <= m <= 9999 ------
RECURSIVE FNorm(_, _)
FNorm(m, e) ==
    IF m = 0 THEN [m |-> 0, e |-> 0]
    ELSE IF m >= 10000 THEN FNorm(m \div 10, e + 1)
    ELSE IF m < 1000 THEN FNorm(m * 10, e - 1)
    ELSE [m |-> m, e |-> e]

FZero == FNorm(0, 0)
FOne  == FNorm(1, 0)

\* float(abs(n)) of an integer
FromInt(n) == FNorm(Abs(n), 0)

FMul(a, b) == FNorm(a.m * b.m, a.e + b.e)

\* a / b, b not zero
FDiv(a, b) == FNorm((a.m * 10000) \div b.m, a.e - b.e - 4)

FAdd(a, b) ==
    IF a.m = 0 THEN b
    ELSE IF b.m = 0 THEN a
    ELSE LET hi == IF a.e >= b.e THEN a ELSE b
             lo == IF a.e >= b.e THEN b ELSE a
             d  == hi.e - lo.e
         IN  IF d > 4 THEN hi ELSE FNorm(hi.m * Pow10(d) + lo.m, lo.e)

\* The sum of a sequence of floats.
RECURSIVE FSum(_)
FSum(s) == IF Len(s) = 0 THEN FZero ELSE FAdd(s[1], FSum(Tail(s)))

\* The integer square root, by Newton's iteration from above.
RECURSIVE ISqrtFrom(_, _)
ISqrtFrom(n, x) ==
    LET y == (x + n \div x) \div 2
    IN  IF y >= x THEN x ELSE ISqrtFrom(n, y)

ISqrt(n) == IF n = 0 THEN 0 ELSE ISqrtFrom(n, n)

\* np.sqrt
FSqrt(a) ==
    IF a.m = 0 THEN FZero
    ELSE LET odd == a.e % 2 = 1
             m2  == IF odd THEN a.m * 10 ELSE a.m
             e2  == IF odd THEN a.e - 1 ELSE a.e
         IN  FNorm(ISqrt(m2 * 10000), (e2 - 4) \div 2)

\* A float of less than 10^4, in thousandths, rounded down.
FToMilli(a) ==
    IF a.e + 3 >= 0 THEN a.m * Pow10(a.e + 3)
    ELSE IF a.e + 3 < -4 THEN 0
    ELSE a.m \div Pow10(-(a.e + 3))

\* num / den in units of 10^-k, rounded down (den > 0).
RECURSIVE DivDigits(_, _, _)
DivDigits(num, den, k) ==
    IF k = 0 THEN num \div den
    ELSE (num \div den) * Pow10(k) + DivDigits((num % den) * 10, den, k - 1)

\* exp(p / q) in millionths (q > 0): the sum of the Taylor series, term
\* after term.
RECURSIVE ExpTerms(_, _, _, _)
ExpTerms(t, p, q, k) ==
    IF t = 0 \/ k > 40 THEN 0
    ELSE t + ExpTerms((t * p) \div (q * k), p, q, k + 1)

ExpMicro(p, q) == ExpTerms(Pow10(6), p, q, 1)

\* ---- sync.py: the cached daily sheets and the attendance JSON ----------
\* The files of the cache directory are a sequence of records
\* [date, rows], ordered by file name, which is the date.

\* item for item in attended_data if id_to_numeric(item['id']) is not None
NumericItems(attended_data) ==
    SelectSeq(attended_data, LAMBDA item : id_to_numeric(item.id).kind /= "none")

\* The rows get_historical_attendance_data appends for one file.
HistRow(file_date, attended_data) ==
    IF Len(attended_data) = 0 THEN <<>>
    ELSE IF Len(NumericItems(attended_data)) = 0 THEN <<>>
    ELSE <<[date |-> file_date, attended_data |-> attended_data]>>

\* The loop of get_historical_attendance_data over files[i:].
RECURSIVE HistLoop(_, _)
HistLoop(files, i) ==
    IF i > Len(files) THEN <<>>
    ELSE HistRow(files[i].date, extract_attended_ids_from_sheet(files[i].rows))
           \o HistLoop(files, i + 1)

\* The rows of the data frame; none is set when the function returns None.
HistFrame(data) == [none |-> Len(data) = 0, rows |-> data]

get_historical_attendance_data(files) ==
    IF Len(files) = 0 THEN HistFrame(<<>>) ELSE HistFrame(HistLoop(files, 1))

\* The points of one file.
PointsOfDay(visit_date, attended_data) ==
    [j \in 1 .. Len(attended_data) |->
        [date    |-> visit_date,
         id      |-> attended_data[j].id,
         is_live |-> attended_data[j].is_live]]

\* The loop of generate_attendance_json over files[i:]; sheet_to_date maps
\* the date of a sheet of the summary table to its visit date.
RECURSIVE JsonLoop(_, _, _)
JsonLoop(files, sheet_to_date, i) ==
    IF i > Len(files) THEN <<>>
    ELSE IF files[i].date \notin DOMAIN sheet_to_date
    THEN JsonLoop(files, sheet_to_date, i + 1)
    ELSE PointsOfDay(sheet_to_date[files[i].date],
                     extract_attended_ids_from_sheet(files[i].rows))
           \o JsonLoop(files, sheet_to_date, i + 1)

\* The attendance JSON file: whether it exists, and the data in it.
JsonFile(attendance_points) ==
    [exists |-> TRUE,
     data |-> [attendance_points |-> attendance_points,
               total_points |-> Len(attendance_points)]]

NoJsonFile ==
    [exists |-> FALSE, data |-> [attendance_points |-> <<>>, total_points |-> 0]]

\* The attendance JSON file after generate_attendance_json, when the
\* summary table is in the cache.
generate_attendance_json(files, sheet_to_date, json_file) ==
    IF Len(files) = 0 THEN json_file
    ELSE JsonFile(JsonLoop(files, sheet_to_date, 1))

\* ---- prediction.py: the points of the regression -----------------------
\* A processed point is [id, ordinal, is_live]; the identifiers of this
\* specification carry no suffix, so that id is a whole number.
ProcessedPoint(numeric_id, ordinal, is_live) ==
    IF numeric_id.kind = "none" THEN <<>>
    ELSE <<[id |-> numeric_id.num \div numeric_id.den,
            ordinal |-> ordinal, is_live |-> is_live]>>

\* The loop of calculate_prediction_from_attendance_json over points[i:].
RECURSIVE ProcessLoop(_, _)
ProcessLoop(points, i) ==
    IF i > Len(points) THEN <<>>
    ELSE ProcessedPoint(id_to_numeric(points[i].id),
                        get_ordinal_date(points[i].date),
                        points[i].is_live)
           \o ProcessLoop(points, i + 1)

\* The loop of calculate_prediction_with_daily_data over the rows of
\* hist_df from row i on.
RECURSIVE HistPoints(_, _)
HistPoints(hist_df, i) ==
    IF i > Len(hist_df) THEN <<>>
    ELSE ProcessLoop(PointsOfDay(hist_df[i].date, hist_df[i].attended_data), 1)
           \o HistPoints(hist_df, i + 1)

\* ---- prediction.py: the weighted regression ----------------------------
weightExpMin    == -3
weightExpMax    == 1
liveQueueWeight == 0

\* points_df.groupby('id'): the keys, and the aggregates of one key
GroupIds(points_df) == {points_df[i].id : i \in 1 .. Len(points_df)}

GroupOrdinals(points_df, x) ==
    [i \in {j \in 1 .. Len(points_df) : points_df[j].id = x} |->
        points_df[i].ordinal]

GroupIsLive(points_df, x) ==
    \E i \in 1 .. Len(points_df) : points_df[i].id = x /\ points_df[i].is_live

\* The sum of a function of integers over a finite domain.
RECURSIVE SumFcn(_, _)
SumFcn(f, dom) ==
    IF dom = {} THEN 0
    ELSE LET i == CHOOSE j \in dom : TRUE
         IN  f[i] + SumFcn(f, dom \ {i})

\* One row of id_groups: the id, the sum and the count of its ordinals
\* (the mean ordinal is sum / cnt) and the maximum of is_live.
GroupRow(x, ordinals, is_live) ==
    [id |-> x, sum |-> SumFcn(ordinals, DOMAIN ordinals),
     cnt |-> Cardinality(DOMAIN ordinals), is_live |-> is_live]

id_groups_of(points_df) ==
    {GroupRow(x, GroupOrdinals(points_df, x), GroupIsLive(points_df, x)) :
        x \in GroupIds(points_df)}

\* id_groups.sort_values('ordinal'): group a comes before group b when its
\* mean ordinal is smaller; the groups of one mean ordinal keep the order
\* of groupby, which is the order of the ids.
SortsBefore(a, b) ==
    \/ a.sum * b.cnt < b.sum * a.cnt
    \/ (a.sum * b.cnt = b.sum * a.cnt /\ a.id < b.id)

\* The groups in the sorted order, the first one chosen at every step.
RECURSIVE SortValues(_)
SortValues(groups) ==
    IF groups = {} THEN <<>>
    ELSE LET g == CHOOSE a \in groups :
                      \A b \in groups \ {a} : SortsBefore(a, b)
         IN  <<g>> \o SortValues(groups \ {g})

daily_stats_of(points_df) == SortValues(id_groups_of(points_df))

\* X, Y (in sixths of a day) and is_live_mask of daily_stats
XOf(daily_stats) == [i \in 1 .. Len(daily_stats) |-> daily_stats[i].id]

YOf(daily_stats) ==
    [i \in 1 .. Len(daily_stats) |->
        (6 * daily_stats[i].sum) \div daily_stats[i].cnt]

\* np.exp(weightExpMin + (i / (n - 1)) * (weightExpMax - weightExpMin)),
\* in hundredths (i from 0, of n groups)
ExpWeight(i, n) ==
    (ExpMicro(weightExpMin * (n - 1) + i * (weightExpMax - weightExpMin), n - 1)
       + 5000) \div 10000

\* weights[i]: weights[is_live_mask] *= liveQueueWeight
WeightOf(i, n, is_live) ==
    IF is_live THEN ExpWeight(i, n) * liveQueueWeight ELSE ExpWeight(i, n)

WeightsOf(daily_stats) ==
    [i \in 1 .. Len(daily_stats) |->
        WeightOf(i - 1, Len(daily_stats), daily_stats[i].is_live)]

\* tScore90 = t.ppf(0.95, dof) and tScore50 = t.ppf(0.75, dof) of scipy,
\* tabulated: a row <<hi, m, e>> gives the quantile m * 10^e for the
\* degrees of freedom, in hundredths, below hi and not below the hi of the
\* row before it (the quantile of the middle of that range).
RECURSIVE Lookup(_, _, _)
Lookup(table, dofC, i) ==
    IF i = Len(table) \/ dofC < table[i][1]
    THEN [m |-> table[i][2], e |-> table[i][3]]
    ELSE Lookup(table, dofC, i + 1)

tScore90Table == <<
    <<5, 7985, 35>>, <<10, 3037, 9>>, <<15, 1853, 4>>, <<20, 1154, 2>>,
    <<25, 7146, 0>>, <<30, 1247, 0>>, <<35, 3792, -1>>, <<40, 1604, -1>>,
    <<45, 8400, -2>>, <<50, 5080, -2>>, <<55, 3403, -2>>, <<60, 2458, -2>>,
    <<65, 1879, -2>>, <<70, 1500, -2>>, <<75, 1239, -2>>, <<80, 1052, -2>>,
    <<85, 9142, -3>>, <<90, 8083, -3>>, <<95, 7255, -3>>, <<100, 6595, -3>>,
    <<125, 5247, -3>>, <<150, 4060, -3>>, <<175, 3435, -3>>, <<200, 3057, -3>>,
    <<225, 2806, -3>>, <<250, 2628, -3>>, <<275, 2496, -3>>, <<300, 2395, -3>>,
    <<325, 2315, -3>>, <<350, 2250, -3>>, <<375, 2196, -3>>, <<400, 2151, -3>>,
    <<425, 2113, -3>>, <<450, 2080, -3>>, <<475, 2051, -3>>, <<500, 2026, -3>>,
    <<525, 2004, -3>>, <<550, 1984, -3>>, <<575, 1966, -3>>, <<600, 1950, -3>>,
    <<601, 1943, -3>> >>

tScore50Table == <<
    <<5, 8780, 7>>, <<10, 1455, 0>>, <<15, 4743, -2>>, <<20, 1170, -2>>,
    <<25, 5580, -3>>, <<30, 3561, -3>>, <<35, 2645, -3>>, <<40, 2145, -3>>,
    <<45, 1838, -3>>, <<50, 1632, -3>>, <<55, 1486, -3>>, <<60, 1378, -3>>,
    <<65, 1294, -3>>, <<70, 1228, -3>>, <<75, 1174, -3>>, <<80, 1130, -3>>,
    <<85, 1093, -3>>, <<90, 1061, -3>>, <<95, 1034, -3>>, <<100, 1010, -3>>,
    <<125, 9550, -4>>, <<150, 8941, -4>>, <<175, 8548, -4>>, <<200, 8273, -4>>,
    <<225, 8070, -4>>, <<250, 7915, -4>>, <<275, 7791, -4>>, <<300, 7692, -4>>,
    <<325, 7609, -4>>, <<350, 7540, -4>>, <<375, 7480, -4>>, <<400, 7429, -4>>,
    <<425, 7385, -4>>, <<450, 7346, -4>>, <<475, 7311, -4>>, <<500, 7281, -4>>,
    <<525, 7253, -4>>, <<550, 7228, -4>>, <<575, 7205, -4>>, <<600, 7185, -4>>,
    <<601, 7175, -4>> >>

\* The outcomes of a call: None, an exception, or the Prediction.
NoPrediction == [kind |-> "None"]
Raised       == [kind |-> "Raised"]

\* A float ordinal is its floor, the thousandths above the floor and the
\* side on which the rounding of the floating point left it: tiny is -1
\* for a value just below, 1 for a value just above and 0 for the value.
OrdValue(milli, tiny) ==
    [whole |-> milli \div 1000, frac |-> milli % 1000, tiny |-> tiny]


\* The margin taken with the other sign.
OrdPlus_swapped(predOrd_m, sgn, margin, tiny) ==
    IF margin.m = 0 THEN OrdValue(predOrd_m, tiny)
    ELSE IF margin.e >= 6
    THEN [whole |-> (-sgn) * Pow10(9), frac |-> 0, tiny |-> 0]
    ELSE IF margin.e >= 0
    THEN [whole |-> predOrd_m \div 1000 - sgn * margin.m * Pow10(margin.e),
          frac  |-> predOrd_m % 1000, tiny |-> tiny]
    ELSE OrdValue(predOrd_m - sgn * FToMilli(margin), tiny)

\* predOrd + sgn * margin.  A margin of 10^9 days or more is taken as 10^9
\* days: every date that far from the anchor is out of the range of dates.
OrdPlus(predOrd_m, sgn, margin, tiny) ==
    IF margin.m = 0 THEN OrdValue(predOrd_m, tiny)
    ELSE IF margin.e >= 6
    THEN [whole |-> sgn * Pow10(9), frac |-> 0, tiny |-> 0]
    ELSE IF margin.e >= 0
    THEN [whole |-> predOrd_m \div 1000 + sgn * margin.m * Pow10(margin.e),
          frac  |-> predOrd_m % 1000, tiny |-> tiny]
    ELSE OrdValue(predOrd_m + sgn * FToMilli(margin), tiny)

\* int(ordinal): towards zero
IntOf(v) ==
    IF v.frac = 0
    THEN IF v.tiny = -1 /\ v.whole > 0 THEN v.whole - 1
         ELSE IF v.tiny = 1 /\ v.whole < 0 THEN v.whole + 1
         ELSE v.whole
    ELSE IF v.whole >= 0 THEN v.whole ELSE v.whole + 1

\* max(l_ord, min_feasible)
MaxOrd(v, min_feasible) ==
    IF \/ v.whole < min_feasible
       \/ (v.whole = min_feasible /\ v.frac = 0 /\ v.tiny = -1)
    THEN [whole |-> min_feasible, frac |-> 0, tiny |-> 0]
    ELSE v

\* The future floor left out.
FutureFloor_off(l_ord, uid, max_id, min_feasible) == l_ord

\* prediction.py:162-164 and 288-290
FutureFloor(l_ord, uid, max_id, min_feasible) ==
    IF uid > max_id THEN MaxOrd(l_ord, min_feasible) ELSE l_ord

\* datetime.date.min.toordinal() and datetime.date.max.toordinal(): the
\* date arithmetic of get_date_from_ordinal raises OverflowError outside.
DateMin == 1
DateMax == 3652059

DateInRange(d) == DateMin <= d /\ d <= DateMax

\* margin90 = tScore90 * sePred and margin50 = tScore50 * sePred, of a fit
\* [predOrd_m, sePred, dofC]: the predicted ordinal in thousandths, the
\* standard error and the degrees of freedom in hundredths.
MarginsOf(fit) ==
    [margin90 |-> FMul(Lookup(tScore90Table, fit.dofC, 1), fit.sePred),
     margin50 |-> FMul(Lookup(tScore50Table, fit.dofC, 1), fit.sePred)]

\* The five ordinals, the lower ones after the floor; about is [max_id,
\* min_feasible, data_points, data_source] and tiny gives the side of the
\* rounding of each ordinal.
OrdinalsOf(predOrd_m, margins, uid, about, tiny) ==
    [l90  |-> FutureFloor(OrdPlus(predOrd_m, -1, margins.margin90, tiny.l90),
                          uid, about.max_id, about.min_feasible),
     l50  |-> FutureFloor(OrdPlus(predOrd_m, -1, margins.margin50, tiny.l50),
                          uid, about.max_id, about.min_feasible),
     mean |-> OrdValue(predOrd_m, tiny.mean),
     h50  |-> OrdPlus(predOrd_m, 1, margins.margin50, tiny.h50),
     h90  |-> OrdPlus(predOrd_m, 1, margins.margin90, tiny.h90)]

\* get_date_from_ordinal of each of the five ordinals
DatesOf(ords) ==
    [k \in DOMAIN ords |-> get_date_from_ordinal(IntOf(ords[k]))]

\* The return statement; an ordinal out of the range of dates raises.
PredictionRecord(dates, fit, about) ==
    IF \A k \in DOMAIN dates : DateInRange(dates[k])
    THEN [kind |-> "Prediction",
          l90 |-> dates.l90, l50 |-> dates.l50, mean |-> dates.mean,
          h50 |-> dates.h50, h90 |-> dates.h90,
          dist |-> [loc |-> fit.predOrd_m, scale |-> fit.sePred,
                    df |-> fit.dofC],
          data_points |-> about.data_points,
          data_source |-> about.data_source]
    ELSE Raised

\* The margins, the floor and the return statement.
PredictionOf(fit, uid, about, tiny) ==
    PredictionRecord(
        DatesOf(OrdinalsOf(fit.predOrd_m, MarginsOf(fit), uid, about, tiny)),
        fit, about)

\* A guard of four groups instead of five.
TooFewGroups_four(n) == n < 4

\* if n < 5: return None
TooFewGroups(n) == n < 5

\* if len(points) < 5, if len(processed_points) < 5, len(hist_df) < 5
TooFewPoints(k) == k < 5

\* max of a sequence of integers that is not empty
RECURSIVE MaxSeq(_)
MaxSeq(s) == IF Len(s) = 1 THEN s[1] ELSE Max(s[1], MaxSeq(Tail(s)))

\* The rounding of the floating point.  Where the exact predicted ordinal
\* is a whole number, the float of the code is that number or a float
\* just below or just above it, and int() of it differs.  Where the exact
\* standard error is zero (the weighted points are on one line), the
\* float of the code is zero or a rounding residue, of which SeResidue is
\* a sample.  The five ordinals are in order whatever the rounding: the
\* margins are not negative.
Exact == [l90 |-> 0, l50 |-> 0, mean |-> 0, h50 |-> 0, h90 |-> 0]

Sides == {-1, 0, 1}

SeResidue == FNorm(1, -13)

\* The standard errors and the sides the code may come to.
Roundings(predWhole, sePred) ==
    LET one  == {[Exact EXCEPT !.mean = s] : s \in Sides}
        same == {[k \in DOMAIN Exact |-> s] : s \in Sides}
        any  == {t \in [DOMAIN Exact -> Sides] :
                    t.l90 <= t.l50 /\ t.l50 <= t.mean
                      /\ t.mean <= t.h50 /\ t.h50 <= t.h90}
    IN  IF sePred.m /= 0
        THEN {[se |-> sePred, tiny |-> t] :
                 t \in IF predWhole THEN one ELSE {Exact}}
        ELSE {[se |-> sePred, tiny |-> t] :
                 t \in IF predWhole THEN same ELSE {Exact}}
               \cup {[se |-> SeResidue, tiny |-> t] :
                        t \in IF predWhole THEN any
                              ELSE {[Exact EXCEPT !.l90 = -1, !.l50 = -1,
                                                  !.h50 = 1, !.h90 = 1]}}

\* With one group of non-zero weight the denominator is zero in exact
\* arithmetic; in the floating point of the code it is zero or a rounding
\* residue, and with a residue the slope and the standard error are
\* quotients of residues.  UnspecifiedOrds samples the predicted ordinals,
\* in thousandths, such a quotient may give (with a standard error of zero).
UnspecifiedOrds(min_feasible) ==
    {-2500, 0, min_feasible * 1000 + 2500}


\* The weighted sums of prediction.py:117-121 (weights in hundredths, Y in
\* sixths of a day).
SumsOf(X, Y, weights) ==
    [sumW   |-> SumSeq(weights),
     sumWX  |-> SumSeq([i \in DOMAIN X |-> weights[i] * X[i]]),
     sumWY  |-> SumSeq([i \in DOMAIN X |-> weights[i] * Y[i]]),
     sumWXX |-> SumSeq([i \in DOMAIN X |-> weights[i] * X[i] * X[i]]),
     sumWXY |-> SumSeq([i \in DOMAIN X |-> weights[i] * X[i] * Y[i]])]

\* denom = sumW * sumWXX - sumWX ** 2
DenomOf(s) == s.sumW * s.sumWXX - s.sumWX * s.sumWX

\* dof = sumW - 2, in hundredths
DofOf(s) == s.sumW - 200

\* slope and intercept, times 6 * denom
SlopeNum(s)     == s.sumW * s.sumWXY - s.sumWX * s.sumWY
InterceptNum(s) == s.sumWY * s.sumWXX - s.sumWX * s.sumWXY

\* The square of a float.
FSq(a) == FMul(a, a)

\* residuals = Y - (slope * X + intercept), of one group
Residual(x, y, s) ==
    FDiv(FromInt(y * DenomOf(s) - SlopeNum(s) * x - InterceptNum(s)),
         FromInt(6 * DenomOf(s)))

\* weightedSumResSq = np.sum(weights * residuals ** 2)
weightedSumResSqOf(X, Y, weights, s) ==
    FSum([i \in DOMAIN X |->
             FMul(FNorm(weights[i], -2), FSq(Residual(X[i], Y[i], s)))])

\* X - weightedMeanX, weightedMeanX = sumWX / sumW
DevX(x, s) == FDiv(FromInt(x * s.sumW - s.sumWX), FromInt(s.sumW))

\* weightedVarX = np.sum(weights * (X - weightedMeanX) ** 2)
weightedVarXOf(X, weights, s) ==
    FSum([i \in DOMAIN X |-> FMul(FNorm(weights[i], -2), FSq(DevX(X[i], s)))])

\* sePred = np.sqrt(mseWeighted * (1 + 1 / sumW + term3)), with
\* mseWeighted = weightedSumResSq / dof and
\* term3 = (user_id - weightedMeanX) ** 2 / weightedVarX
sePredOf(X, Y, weights, s, uid) ==
    FSqrt(FMul(FDiv(weightedSumResSqOf(X, Y, weights, s),
                    FNorm(DofOf(s), -2)),
               FAdd(FAdd(FOne, FDiv(FOne, FNorm(s.sumW, -2))),
                    FDiv(FSq(DevX(uid, s)), weightedVarXOf(X, weights, s)))))

\* predOrd = slope * user_id + intercept, times 6 * denom
PredNum(s, uid) == SlopeNum(s) * uid + InterceptNum(s)

\* The Predictions of a fit of standard error sePred, one for every
\* rounding; predOrd is taken in thousandths.
FitOutcomes(s, uid, about, sePred) ==
    {PredictionOf([predOrd_m |-> DivDigits(PredNum(s, uid), 6 * DenomOf(s), 3),
                   sePred |-> r.se, dofC |-> DofOf(s)],
                  uid, about, r.tiny)
       : r \in Roundings(PredNum(s, uid) % (6 * DenomOf(s)) = 0, sePred)}

\* The outcomes of a denominator that is zero in exact arithmetic.
ZeroDenomOutcomes(s, uid, about) ==
    {NoPrediction, Raised}
      \cup {PredictionOf([predOrd_m |-> o, sePred |-> FZero,
                          dofC |-> DofOf(s)],
                         uid, about, Exact)
              : o \in UnspecifiedOrds(about.min_feasible)}

\* prediction.py:123-179 on the sums s
RegressSums(X, Y, weights, s, uid, about) ==
    IF DenomOf(s) = 0
    THEN IF DofOf(s) <= 0 THEN {NoPrediction}
         ELSE ZeroDenomOutcomes(s, uid, about)
    ELSE IF DofOf(s) <= 0 THEN {NoPrediction}
    ELSE FitOutcomes(s, uid, about, sePredOf(X, Y, weights, s, uid))

RegressWeighted(X, Y, weights, uid, about) ==
    RegressSums(X, Y, weights, SumsOf(X, Y, weights), uid, about)

\* max_id = X.max(), min_feasible = max_hist_ord + 1 and the two fields of
\* the Prediction that tell of the data
AboutOf(points_df, X, data_source) ==
    [max_id |-> MaxSeq(X),
     min_feasible |->
         MaxSeq([i \in 1 .. Len(points_df) |-> points_df[i].ordinal]) + 1,
     data_points |-> Len(points_df),
     data_source |-> data_source]

\* prediction.py:105-179 on daily_stats
RegressStats(daily_stats, points_df, uid, data_source) ==
    IF TooFewGroups(Len(daily_stats)) THEN {NoPrediction}
    ELSE RegressWeighted(XOf(daily_stats), YOf(daily_stats),
                         WeightsOf(daily_stats), uid,
                         AboutOf(points_df, XOf(daily_stats), data_source))

\* The regression both functions run on points_df (prediction.py:94-179
\* and 220-306): the set of the outcomes, one but for a zero denominator.
Regress(points_df, uid, data_source) ==
    RegressStats(daily_stats_of(points_df), points_df, uid, data_source)

\* if len(processed_points) < 5: return None, and the regression
RegressPoints(points_df, uid, data_source) ==
    IF TooFewPoints(Len(points_df)) THEN {NoPrediction}
    ELSE Regress(points_df, uid, data_source)

calculate_prediction_from_attendance_json(uid, attendance_data) ==
    IF TooFewPoints(Len(attendance_data.attendance_points))
    THEN {NoPrediction}
    ELSE RegressPoints(ProcessLoop(attendance_data.attendance_points, 1),
                       uid, "attendance_json")

\* The branch of calculate_prediction_with_daily_data on the daily sheets.
PredictionFromHistory(uid, hist_df) ==
    IF hist_df.none THEN {NoPrediction}
    ELSE IF TooFewPoints(Len(hist_df.rows)) THEN {NoPrediction}
    ELSE RegressPoints(HistPoints(hist_df.rows, 1), uid, "daily_sheets")

\* json_file is the attendance JSON (load_attendance_from_json gives None
\* without the file), files the cached daily sheets.
calculate_prediction_with_daily_data(uid, json_file, files) ==
    IF json_file.exists
    THEN calculate_prediction_from_attendance_json(uid, json_file.data)
    ELSE PredictionFromHistory(uid, get_historical_attendance_data(files))

(***************************************************************************)
(* SpecPred: an empty cache, or a cache of the daily sheets of MaxDays      *)
(* consecutive business days from the anchor date on, one row a sheet.     *)
(* On day k the row is of one of DayKinds:                                 *)
(*   "same"       identifier k, entered                                    *)
(*   "next"       identifier k + 1, entered                                *)
(*   "live"       identifier k, entered from the live queue                *)
(*   "malformed"  an identifier with a digit that is no number, entered    *)
(* The attendance JSON is absent until GenerateJson writes it; Predict     *)
(* calls calculate_prediction_with_daily_data for one of UserIds.          *)
(***************************************************************************)
MaxDays == 5

DayKinds == {"same", "next", "live", "malformed"}

\* str(n) of an integer n >= 0
RECURSIVE IntStr(_)
IntStr(n) ==
    LET d == <<CHOOSE c \in Digits : DigitVal(c) = n % 10>>
    IN  IF n < 10 THEN d ELSE IntStr(n \div 10) \o d

\* The date of the k-th cached day.
DayDate(k) == get_date_from_ordinal(get_ordinal_date(Anchor) + k - 1)

DayRow(k, kind) ==
    << <<"1">>,
       CASE kind = "same" -> IntStr(k)
         [] kind = "next" -> IntStr(k + 1)
         [] kind = "live" -> IntStr(k)
         [] kind = "malformed" -> <<"x">> \o IntStr(k),
       IF kind = "live"
       THEN <<"Zaishov", " ", "za zhyvoyu chergoyu">>
       ELSE <<"Zaishov">> >>

DaySheet(k, kind) == <<BannerRow, BannerRow, HeaderRow, DayRow(k, kind)>>

CacheOf(kinds) ==
    [k \in 1 .. Len(kinds) |->
        [date |-> DayDate(k), rows |-> DaySheet(k, kinds[k])]]

Caches ==
    {CacheOf(kinds) :
        kinds \in UNION {[1 .. n -> DayKinds] : n \in {0, MaxDays}}}

\* The identifiers asked about: one inside the corpus, one beyond it.
UserIds == {3, MaxDays + 2}

\* The summary table lists every cached sheet under its own date.
SheetToDate(files) ==
    [d \in {files[i].date : i \in 1 .. Len(files)} |-> d]

PredInit ==
    /\ predPc = "start"
    /\ cache \in Caches
    /\ attendance_json = NoJsonFile
    /\ user_id = 0
    /\ prediction = NoPrediction

PredPark ==
    /\ predPc = "parked" /\ cache = <<>> /\ attendance_json = NoJsonFile
    /\ user_id = 0 /\ prediction = NoPrediction

GenerateJson ==
    /\ predPc = "start"
    /\ attendance_json' =
          generate_attendance_json(cache, SheetToDate(cache), attendance_json)
    /\ predPc' = "generated"
    /\ UNCHANGED <<cache, user_id, prediction>>

Predict ==
    /\ predPc \in {"start", "generated"}
    /\ \E uid \in UserIds :
         /\ user_id' = uid
         /\ prediction' \in
               calculate_prediction_with_daily_data(uid, attendance_json, cache)
    /\ predPc' = "predicted"
    /\ UNCHANGED <<cache, attendance_json>>

\* The except clause left out: what is raised inside goes to the caller.
Caught_propagates(outcome) == outcome

\* prediction.py:55-60: if prediction: return prediction; an Exception is
\* logged; return None
Caught(outcome) == IF outcome.kind = "Raised" THEN NoPrediction ELSE outcome

\* What sync_daily_sheets does at prediction.py:52: it raises, it leaves
\* attendance_data.json as it is, or it writes it anew from the cache.
SyncOutcomes == {"raises", "kept", "regenerated"}

\* prediction.py:44-60, json_file being the file after sync_daily_sheets.
calculate_prediction(uid, json_file, files, sync) ==
    IF sync = "raises"
    THEN {Caught(Raised)}
    ELSE {Caught(o) :
            o \in calculate_prediction_with_daily_data(uid, json_file, files)}

CalculatePrediction ==
    /\ predPc \in {"start", "generated"}
    /\ \E uid \in UserIds, sync \in SyncOutcomes :
         /\ user_id' = uid
         /\ attendance_json' =
               IF sync = "regenerated"
               THEN generate_attendance_json(cache, SheetToDate(cache),
                                             attendance_json)
               ELSE attendance_json
         /\ prediction' \in
               calculate_prediction(uid, attendance_json', cache, sync)
    /\ predPc' = "returned"
    /\ UNCHANGED cache

(***************************************************************************)
(* The queue-admission eligibility checker: check_id_for_queue of          *)
(* vlk_bot/handlers_join.py, and check_id_for_queue of                     *)
(* VLK_Zakrevskoho_81_BOT.py (written check_id_for_queue_BOT here).        *)
(*                                                                         *)
(* The summary table stats_df is [none, last]: none is set when            *)
(* get_stats_data gave None, last is the column of the last identifier     *)
(* that entered, row by row, each cell [nan, v] (pd.to_numeric makes nan   *)
(* of a cell that is no number).  An identifier is [none, v]:              *)
(* extract_main_id gives None for a text without leading digits.  A        *)
(* message is [text, days]: which of the texts of the code it is, and the  *)
(* number of days in it.                                                   *)
(***************************************************************************)
Returned(can_register, text, days) ==
    [kind |-> "Returned", can_register |-> can_register,
     message |-> [text |-> text, days |-> days]]

\* the numbers of a column, nan dropped
DropNa(col) == {col[i].v : i \in {j \in 1 .. Len(col) : ~col[j].nan}}

\* the maximum of a set of integers that is not empty
MaxOf(S) == CHOOSE x \in S : \A y \in S : y <= x

\* ---- vlk_bot/handlers_join.py ------------------------------------------
\* handlers_join.py:40-43
AlreadyPassed(previous_state, last_status) ==
    IF previous_state.kind /= "empty" /\ last_status = "Ukhvaleno"
    THEN Returned(TRUE, "already passed, choose a new date", 0)
    ELSE Returned(FALSE, "already passed, impossible", 0)

\* handlers_join.py:39: main_id and last_entered and main_id <= last_entered
\* (None and 0 are false; max() of an empty column is nan, which is true
\* and compares false)
NotAboveLast(main_id, entered) ==
    /\ ~main_id.none /\ main_id.v /= 0
    /\ entered /= {}
    /\ MaxOf(entered) /= 0
    /\ main_id.v <= MaxOf(entered)

check_id_for_queue(main_id, previous_state, last_status, stats_df) ==
    IF stats_df.none \/ Len(stats_df.last) = 0 THEN Returned(TRUE, "", 0)
    ELSE IF NotAboveLast(main_id, DropNa(stats_df.last))
    THEN AlreadyPassed(previous_state, last_status)
    ELSE Returned(TRUE, "", 0)

\* ---- VLK_Zakrevskoho_81_BOT.py -----------------------------------------
\* act_working_day: today, or the Friday before a weekend day
ActWorkingDay(today) ==
    IF Weekday(today) >= 5 THEN today - (Weekday(today) - 4) ELSE today

\* BOT.py:670-676: the earlier booking is accepted and after today
BookedAhead(user_prev_date, user_last_status, today) ==
    /\ user_prev_date.kind = "date"
    /\ user_prev_date.date > ActWorkingDay(today)
    /\ user_last_status = "Ukhvaleno"

\* Cum_Max of row i: [::-1].cummax()[::-1], nan where the cell is nan
CumMax(col, i) ==
    [nan |-> col[i].nan,
     v   |-> IF col[i].nan THEN 0
             ELSE MaxOf({col[j].v : j \in {k \in i .. Len(col) : ~col[k].nan}})]

\* delay_days = stats_df[stats_df['Cum_Max'] > user_id_to_check].shape[0]
DelayDays(col, id) ==
    Cardinality({i \in 1 .. Len(col) :
                    ~CumMax(col, i).nan /\ CumMax(col, i).v > id})

\* BOT.py:682-685
Delayed(delay_days) ==
    IF delay_days <= 1 THEN Returned(TRUE, "last attempt", 0)
    ELSE Returned(FALSE, "missed days", delay_days)

\* BOT.py:655-685, the column with a number in it.  None >= max_id raises
\* TypeError.
CheckAgainst(id, user_prev_date, user_last_status, col, today) ==
    IF id.none THEN Raised
    ELSE IF id.v >= MaxOf(DropNa(col)) THEN Returned(TRUE, "", 0)
    ELSE IF BookedAhead(user_prev_date, user_last_status, today)
    THEN Returned(TRUE, "", 0)
    ELSE Delayed(DelayDays(col, id.v))

\* idxmax() of a column without a number raises.
check_id_for_queue_BOT(id, user_prev_date, user_last_status, stats_df, today) ==
    IF stats_df.none \/ Len(stats_df.last) = 0
    THEN Returned(FALSE, "error, try later", 0)
    ELSE IF DropNa(stats_df.last) = {} THEN Raised
    ELSE CheckAgainst(id, user_prev_date, user_last_status,
                      stats_df.last, today)

(***************************************************************************)
(* SpecElig: a summary table of at most MaxStatsRows rows with last        *)
(* identifiers up to MaxServed (or no number), an identifier, an earlier   *)
(* booking and its status, a day, and the call of either                   *)
(* check_id_for_queue on them.                                             *)
(***************************************************************************)
MaxStatsRows == 3
MaxServed    == 3

Cell(v)  == [nan |-> FALSE, v |-> v]
NanCell  == [nan |-> TRUE, v |-> 0]
Cells    == {NanCell} \cup {Cell(v) : v \in 1 .. MaxServed}

StatsTables ==
    {[none |-> TRUE, last |-> <<>>]}
      \cup {[none |-> FALSE, last |-> col] :
               col \in UNION {[1 .. n -> Cells] : n \in 0 .. MaxStatsRows}}

\* extract_main_id of the text the user gave
MainIds == {[none |-> TRUE, v |-> 0]}
             \cup {[none |-> FALSE, v |-> v] : v \in 1 .. MaxServed + 1}

\* A Friday, the Saturday after it and the Monday after it.
Todays == {Anchor + 4, Anchor + 5, Anchor + 7}

\* previous_state: no earlier booking, a text that is no date, or a date
\* from the Thursday before to the Tuesday after.
NoBooking == [kind |-> "empty", date |-> 0]
PreviousStates ==
    {NoBooking, [kind |-> "text", date |-> 0]}
      \cup {[kind |-> "date", date |-> d] :
               d \in {Anchor + 3, Anchor + 4, Anchor + 5, Anchor + 7, Anchor + 8}}

Statuses4Booking == {"Ukhvaleno", "Vidkhyleno"}

EligInit ==
    /\ eligPc = "start"
    /\ stats_table \in StatsTables
    /\ queue_id \in MainIds
    /\ prev_booking \in PreviousStates
    /\ prev_status \in Statuses4Booking
    /\ current_day \in Todays
    /\ eligibility = Returned(TRUE, "", 0)

EligPark ==
    /\ eligPc = "parked" /\ stats_table = [none |-> TRUE, last |-> <<>>]
    /\ queue_id = [none |-> TRUE, v |-> 0] /\ prev_booking = NoBooking
    /\ prev_status = "" /\ current_day = 0
    /\ eligibility = Returned(TRUE, "", 0)

\* join_get_id of handlers_join.py calls check_id_for_queue
CheckJoin ==
    /\ eligPc = "start"
    /\ eligibility' =
          check_id_for_queue(queue_id, prev_booking, prev_status, stats_table)
    /\ eligPc' = "handlers_join"
    /\ UNCHANGED <<stats_table, queue_id, prev_booking, prev_status,
                   current_day>>

\* join_get_id of VLK_Zakrevskoho_81_BOT.py calls check_id_for_queue
CheckBot ==
    /\ eligPc = "start"
    /\ eligibility' =
          check_id_for_queue_BOT(queue_id, prev_booking, prev_status,
                                 stats_table, current_day)
    /\ eligPc' = "BOT"
    /\ UNCHANGED <<stats_table, queue_id, prev_booking, prev_status,
                   current_day>>

(***************************************************************************)
(* sync.py: download_daily_sheet, attempt by attempt.                      *)
(*                                                                         *)
(* The call is the record dl: where it is (pc), whether sheet_name is a    *)
(* date, retry_delay (in units of half a second), the loop variable        *)
(* attempt, what each attempt met (outcomes), the times slept (waits, in   *)
(* the same units), the levels of the messages logged (log), whether the   *)
(* cache file was written, and the result.  An attempt meets one of        *)
(* FetchOutcomes:                                                          *)
(*   "values"     the sheet came with rows, the cache file is written      *)
(*   "empty"      the sheet came without rows                              *)
(*   "http 429"   HttpError with status 429 (rate limit)                   *)
(*   "http 400"   HttpError with status 400                                *)
(*   "http"       HttpError with another status                            *)
(*   "network"    ConnectionError or BrokenPipeError                       *)
(*   "oserror"    another OSError, such as one of opening the cache file   *)
(*   "exception"  any other Exception                                      *)
(***************************************************************************)
FetchOutcomes ==
    {"values", "empty", "http 429", "http 400", "http", "network", "oserror",
     "exception"}

max_retries == 3

\* wait_time = retry_delay * (2 ** attempt)
WaitTime(retry_delay, attempt) == retry_delay * (2 ^ attempt)

\* A retry after the last attempt too.
CanRetry_lastToo(attempt) == attempt < max_retries

\* if attempt < max_retries - 1
CanRetry(attempt) == attempt < max_retries - 1

\* return False, after the messages of levels
DlFalse(d, levels) ==
    [d EXCEPT !.log = @ \o levels, !.result = "False", !.pc = "returned"]

\* time.sleep(wait_time); continue: the next attempt, or the end of the
\* loop and the return False after it (sync.py:124)
DlContinue(d) ==
    IF d.attempt + 1 < max_retries
    THEN [d EXCEPT !.log = Append(@, "warning"),
                   !.waits = Append(@, WaitTime(d.retry_delay, d.attempt)),
                   !.attempt = @ + 1]
    ELSE [d EXCEPT !.log = Append(@, "warning"),
                   !.waits = Append(@, WaitTime(d.retry_delay, d.attempt)),
                   !.attempt = @ + 1,
                   !.result = "False", !.pc = "returned"]

\* sync.py:99-107 and 111-119
DlRetry(d) ==
    IF CanRetry(d.attempt) THEN DlContinue(d) ELSE DlFalse(d, <<"error">>)

\* sync.py:84-96
DlWritten(d) ==
    [d EXCEPT !.written = TRUE, !.log = Append(@, "debug"),
              !.result = "True", !.pc = "returned"]

\* One pass of the loop body (sync.py:77-122), the attempt meeting outcome.
DlAfter(d, outcome) ==
    CASE outcome = "values"    -> DlWritten(d)
      [] outcome = "empty"     -> DlFalse(d, <<"warning">>)
      [] outcome = "http 429"  -> DlRetry(d)
      [] outcome = "http 400"  -> DlFalse(d, <<>>)
      [] outcome = "http"      -> DlFalse(d, <<"error">>)
      [] outcome = "network"   -> DlRetry(d)
      [] outcome = "oserror"   -> DlRetry(d)
      [] outcome = "exception" -> DlFalse(d, <<"error">>)

\* retry_delay: the default of half a second, or a second
RetryDelays == {1, 2}

DlCalled(is_date, retry_delay) ==
    [pc |-> "called", is_date |-> is_date, retry_delay |-> retry_delay,
     attempt |-> 0, outcomes |-> <<>>, waits |-> <<>>, log |-> <<>>,
     written |-> FALSE, result |-> "None"]

DlInit == \E is_date \in BOOLEAN, rd \in RetryDelays : dl = DlCalled(is_date, rd)

DlPark == dl = [pc |-> "parked"]

\* sync.py:66-75: the sheet name is parsed as a date before any attempt
DlBegin ==
    /\ dl.pc = "called"
    /\ dl' = IF dl.is_date THEN [dl EXCEPT !.pc = "attempt"]
             ELSE DlFalse(dl, <<"error">>)

\* sync.py:76-122: one attempt
DlAttempt ==
    /\ dl.pc = "attempt"
    /\ \E outcome \in FetchOutcomes :
          dl' = DlAfter([dl EXCEPT !.outcomes = Append(@, outcome)], outcome)

(***************************************************************************)
(* sync.py: sync_daily_sheets, a run at a time.                            *)
(* The cache directory holds the summary table (_stats.csv, known by the   *)
(* day of its last change) and the daily sheets, each absent, stale (not   *)
(* what the remote holds now) or current.  The attendance JSON file is     *)
(* [exists, data], and fresh while it is younger than                      *)
(* SYNC_CACHE_TTL_MINUTES.  The day is SyncToday, a Monday; the remote     *)
(* holds the sheets of SheetDates and does not change.                     *)
(***************************************************************************)
SyncToday == Anchor + 14

\* The days of the daily sheets the remote holds: the Friday of the week
\* before last, and the Tuesday and the Wednesday of last week.
SheetDates == <<SyncToday - 10, SyncToday - 6, SyncToday - 5>>

SheetIds == 1 .. Len(SheetDates)

\* The sheet of a date.
IdOfDate(date_obj) == CHOOSE k \in SheetIds : SheetDates[k] = date_obj

\* A row of the summary table: the name of the sheet (a date or not), and
\* the entered count as str() gives it.
StatsRow(is_date, date_obj, entered) ==
    [is_date |-> is_date, sheet |-> date_obj, entered |-> entered]

\* The summary table: a row a sheet, the row of today with no count yet,
\* and a row whose sheet name is no date.
SummaryOf(entered) ==
    [k \in SheetIds |-> StatsRow(TRUE, SheetDates[k], entered[k])]
        \o << StatsRow(TRUE, SyncToday, "nan"), StatsRow(FALSE, 0, "12") >>

EnteredCounts == {"7", ""}

\* sync.py:169: the row has an entered count
HasEntered(entered) == ~ (entered = "" \/ entered \in {"nan", "none", ""})

\* sync.py:164-177: the sheets the summary table lists, from row i on
RECURSIVE SheetsToDownload(_, _)
SheetsToDownload(stats_df, i) ==
    IF i > Len(stats_df) THEN <<>>
    ELSE IF ~ HasEntered(stats_df[i].entered)
    THEN SheetsToDownload(stats_df, i + 1)
    ELSE IF stats_df[i].is_date
    THEN <<stats_df[i].sheet>> \o SheetsToDownload(stats_df, i + 1)
    ELSE SheetsToDownload(stats_df, i + 1)

REFRESH_LAST_N_DAYS == 5

\* The cutoff date itself counted as old.
BeforeCutoff_inclusive(date_obj, cutoff_date) == date_obj <= cutoff_date

\* sync.py:195: date_obj < cutoff_date
BeforeCutoff(date_obj, cutoff_date) == date_obj < cutoff_date

\* sync.py:185-197: the cached sheets older than the cutoff date
ExistingSheets(files, cutoff_date) ==
    {SheetDates[k] : k \in {j \in SheetIds :
        files[j] /= "absent" /\ BeforeCutoff(SheetDates[j], cutoff_date)}}

NotIn(seq, S) == SelectSeq(seq, LAMBDA s : s \notin S)

\* sync.py:181-199
SheetsToUpdate(sheets_to_download, files, force_refresh_all_sheets) ==
    IF force_refresh_all_sheets THEN sheets_to_download
    ELSE NotIn(sheets_to_download,
               ExistingSheets(files, SyncToday - REFRESH_LAST_N_DAYS))

\* The freshness test applied to forced runs too.
SkipsSync_forcedToo(force_refresh_stats, force_refresh_all_sheets, file_exists, file_fresh) ==
    file_exists /\ file_fresh

\* sync.py:136-142: the run is skipped, the attendance JSON being fresh
SkipsSync(force_refresh_stats, force_refresh_all_sheets, file_exists, file_fresh) ==
    /\ ~ force_refresh_stats /\ ~ force_refresh_all_sheets
    /\ file_exists /\ file_fresh

\* sync.py:144-153: the summary table is to be downloaded
ShouldRefresh(force_refresh_stats, mtime) ==
    force_refresh_stats \/ mtime /= "today"

\* The attendance JSON regenerated only when both happened.
Regenerates_both(sheets_updated, should_refresh) ==
    sheets_updated /\ should_refresh

\* sync.py:211
Regenerates(sheets_updated, should_refresh) ==
    sheets_updated \/ should_refresh

\* The rows of a cached sheet: the row of a stale file has the identifier
\* after the one the remote holds now.
RowsOf(k, content) ==
    DaySheet(k, IF content = "stale" THEN "next" ELSE "same")

\* sorted(os.listdir(...)): the cached sheets, by file name
RECURSIVE CacheFilesFrom(_, _)
CacheFilesFrom(files, k) ==
    IF k > Len(SheetDates) THEN <<>>
    ELSE (IF files[k] = "absent" THEN <<>>
          ELSE <<[date |-> SheetDates[k], rows |-> RowsOf(k, files[k])]>>)
         \o CacheFilesFrom(files, k + 1)

\* sync.py:401-411: the visit date of every sheet of the summary table
\* whose name is a date (the visit date is the date of the sheet)
SheetToDateOf(stats_df) ==
    [d \in {stats_df[i].sheet : i \in {j \in 1 .. Len(stats_df) :
                                          stats_df[j].is_date}} |-> d]

\* generate_attendance_json() on the cache directory
Regenerated(files, stats_df, json_file) ==
    generate_attendance_json(CacheFilesFrom(files, 1), SheetToDateOf(stats_df),
                             json_file)

\* The run of a call that returns before the loop.
RunReturned(force_refresh_stats, force_refresh_all_sheets, skipped, result) ==
    [force_refresh_stats |-> force_refresh_stats,
     force_refresh_all_sheets |-> force_refresh_all_sheets,
     skipped |-> skipped, should_refresh |-> FALSE,
     sheets_to_update |-> <<>>, i |-> 1, sheets_updated |-> FALSE,
     attempted |-> <<>>, failed |-> {}, result |-> result]

\* The run of a call at the head of the loop over sheets_to_update.
RunLoop(force_refresh_stats, force_refresh_all_sheets, should_refresh, sheets_to_update) ==
    [force_refresh_stats |-> force_refresh_stats,
     force_refresh_all_sheets |-> force_refresh_all_sheets,
     skipped |-> FALSE, should_refresh |-> should_refresh,
     sheets_to_update |-> sheets_to_update, i |-> 1,
     sheets_updated |-> FALSE, attempted |-> <<>>, failed |-> {},
     result |-> "None"]

\* The loop given up at the first sheet that fails.
AfterDownload_abort(r, sheet_name, ok) ==
    [r EXCEPT !.attempted = Append(@, sheet_name),
              !.sheets_updated = @ \/ ok,
              !.failed = IF ok THEN @ ELSE @ \cup {sheet_name},
              !.i = IF ok THEN @ + 1 ELSE Len(r.sheets_to_update) + 1]

\* sync.py:204-206: download_daily_sheet returned ok for sheets_to_update[i]
AfterDownload(r, sheet_name, ok) ==
    [r EXCEPT !.attempted = Append(@, sheet_name),
              !.sheets_updated = @ \/ ok,
              !.failed = IF ok THEN @ ELSE @ \cup {sheet_name},
              !.i = @ + 1]

\* What is on the disk.
Disk == [snapshots |-> snapshots, stats_mtime |-> stats_mtime,
         corpus |-> corpus, corpus_fresh |-> corpus_fresh]

\* No call yet.
NoRun == RunReturned(FALSE, FALSE, FALSE, "never")

NoPrior == [kind |-> "none"]

\* The call before, for a call with the same flags that follows it: how
\* it ended, the disk when it began, how many sheets it tried and how
\* many it had left to try.
PriorOf(kind) ==
    [kind |-> kind, disk |-> at_call, tried |-> Len(run.attempted),
     left |-> Len(run.sheets_to_update) - Len(run.attempted)]

\* The call before is kept when it was the first call, every download of
\* it succeeded, this call has the flags it had, and follows it at once.
NotKept == [kind |-> "not kept"]

PriorFor(force_refresh_stats, force_refresh_all_sheets) ==
    IF run.result = "never" THEN NoPrior
    ELSE IF /\ prior.kind = "none"
            /\ run.failed = {} /\ run.result /= "False"
            /\ run.force_refresh_stats = force_refresh_stats
            /\ run.force_refresh_all_sheets = force_refresh_all_sheets
    THEN PriorOf(IF run.result = "None" THEN "interrupted" ELSE "returned")
    ELSE NotKept

SyncInit ==
    /\ syncPc = "idle"
    /\ snapshots \in [SheetIds -> {"absent", "stale"}]
    /\ stats_mtime \in {"absent", "before", "today"}
    /\ summary \in {SummaryOf(<<"7", "7", e>>) : e \in EnteredCounts}
    /\ corpus \in {NoJsonFile, Regenerated(snapshots, summary, NoJsonFile)}
    /\ corpus_fresh \in {b \in BOOLEAN : b => corpus.exists}
    /\ run = NoRun
    /\ at_call = Disk
    /\ prior = NoPrior

SyncPark ==
    /\ syncPc = "parked" /\ snapshots = <<>> /\ stats_mtime = "absent"
    /\ summary = <<>> /\ corpus = NoJsonFile /\ corpus_fresh = FALSE
    /\ run = NoRun /\ at_call = <<>> /\ prior = NoPrior

\* sync.py:127-199: the call, up to the loop.  stats_ok: download_stats
\* gave the summary table.
SyncCall ==
    /\ syncPc = "idle"
    /\ at_call' = Disk
    /\ \E force_refresh_stats \in BOOLEAN, force_refresh_all_sheets \in BOOLEAN,
          stats_ok \in BOOLEAN :
          /\ prior' = PriorFor(force_refresh_stats, force_refresh_all_sheets)
          /\ IF SkipsSync(force_refresh_stats, force_refresh_all_sheets,
                          corpus.exists, corpus_fresh)
             THEN /\ run' = RunReturned(force_refresh_stats,
                                        force_refresh_all_sheets, TRUE, "True")
                  /\ UNCHANGED <<syncPc, stats_mtime>>
             ELSE IF ShouldRefresh(force_refresh_stats, stats_mtime) /\ ~ stats_ok
             THEN /\ run' = RunReturned(force_refresh_stats,
                                        force_refresh_all_sheets, FALSE, "False")
                  /\ UNCHANGED <<syncPc, stats_mtime>>
             ELSE /\ run' = RunLoop(force_refresh_stats, force_refresh_all_sheets,
                                    ShouldRefresh(force_refresh_stats, stats_mtime),
                                    SheetsToUpdate(SheetsToDownload(summary, 1),
                                                   snapshots,
                                                   force_refresh_all_sheets))
                  /\ stats_mtime' = "today"
                  /\ syncPc' = "loop"
    /\ UNCHANGED <<snapshots, summary, corpus, corpus_fresh>>

\* sync.py:203-209: one turn of the loop; ok is what download_daily_sheet
\* returned
SyncDownload ==
    /\ syncPc = "loop"
    /\ run.i <= Len(run.sheets_to_update)
    /\ \E ok \in BOOLEAN :
          /\ run' = AfterDownload(run, run.sheets_to_update[run.i], ok)
          /\ snapshots' =
                IF ok
                THEN [snapshots EXCEPT
                         ![IdOfDate(run.sheets_to_update[run.i])] = "current"]
                ELSE snapshots
    /\ UNCHANGED <<syncPc, stats_mtime, summary, corpus, corpus_fresh,
                   at_call, prior>>

\* The age of the attendance JSON left as it is.
Utime_none(file_exists, file_fresh) == file_fresh

\* sync.py:214-215: os.utime(attendance_file, None) when the file exists
Utime(file_exists, file_fresh) == file_exists \/ file_fresh

\* sync.py:211-217: after the loop
SyncFinish ==
    /\ syncPc = "loop"
    /\ run.i > Len(run.sheets_to_update)
    /\ IF Regenerates(run.sheets_updated, run.should_refresh)
       THEN /\ corpus' = Regenerated(snapshots, summary, corpus)
            /\ corpus_fresh' =
                  IF \E k \in SheetIds : snapshots[k] /= "absent"
                  THEN TRUE ELSE corpus_fresh
       ELSE /\ corpus' = corpus
            /\ corpus_fresh' = Utime(corpus.exists, corpus_fresh)
    /\ run' = [run EXCEPT !.result = "True"]
    /\ syncPc' = "idle"
    /\ UNCHANGED <<snapshots, stats_mtime, summary, at_call, prior>>

\* The process is stopped in the loop, before the attendance JSON is
\* regenerated.
Interrupt ==
    /\ syncPc = "loop"
    /\ syncPc' = "idle"
    /\ UNCHANGED <<snapshots, stats_mtime, summary, corpus, corpus_fresh, run,
                   at_call, prior>>

\* SYNC_CACHE_TTL_MINUTES pass between two calls.
Tick ==
    /\ syncPc = "idle"
    /\ corpus_fresh
    /\ corpus_fresh' = FALSE
    /\ prior' = NotKept
    /\ UNCHANGED <<syncPc, snapshots, stats_mtime, summary, corpus, run,
                   at_call>>

(***************************************************************************)
(* The handlers that call calculate_prediction, on the event loop of the    *)
(* bot.  A handler is a coroutine: the loop runs it from one await to the  *)
(* next without running anything else.  join_get_id awaits                 *)
(* get_stats_data(), calls calculate_prediction (a plain function:         *)
(* sync_daily_sheets, then load_attendance_from_json, then the fit) and    *)
(* awaits reply_text.  The attendance JSON on the disk is [writes,         *)
(* partial]: how many times it was written, and whether the writing is     *)
(* under way (open(output_file, 'w') done, json.dump not yet).             *)
(***************************************************************************)
Handlers == {"join_get_id", "status"}

MaxWrites == 2

\* An await inside the prediction too, after the corpus is loaded.
AwaitPoints_inPrediction == {"get_stats_data", "reply_text", "compute"}

\* handlers_join.py:145-160: where the handler awaits; the call of
\* calculate_prediction in between is a plain call
AwaitPoints == {"get_stats_data", "reply_text"}

\* The loop runs the handler on: it is the one running, or the loop is
\* free and the handler waits for it.
Runs(h) ==
    \/ loop_owner = h
    \/ loop_owner = "None" /\ position[h] \in AwaitPoints \cup {"idle"}

\* The handler goes on to the position: the loop is free again when the
\* handler awaits there.
GoesTo(h, pos) ==
    /\ position' = [position EXCEPT ![h] = pos]
    /\ loop_owner' = IF pos \in AwaitPoints \cup {"idle"} THEN "None" ELSE h

NothingLoaded == [kind |-> "None", writes |-> 0, partial |-> FALSE]

ConcInit ==
    /\ loop_owner = "None"
    /\ position = [h \in Handlers |-> "idle"]
    /\ json_on_disk \in {[exists |-> e, writes |-> 0, partial |-> FALSE] :
                            e \in BOOLEAN}
    /\ cache_writes = 0
    /\ loaded_copy = [h \in Handlers |-> NothingLoaded]

ConcPark ==
    /\ loop_owner = "parked" /\ position = <<>> /\ json_on_disk = <<>>
    /\ cache_writes = 0 /\ loaded_copy = <<>>

\* handlers_join.py:145: the update comes in; up to await get_stats_data()
HandlerBegin(h) ==
    /\ position[h] = "idle" /\ Runs(h)
    /\ GoesTo(h, "get_stats_data")
    /\ UNCHANGED <<json_on_disk, cache_writes, loaded_copy>>

\* prediction.py:44-52: calculate_prediction is called
EnterPrediction(h) ==
    /\ position[h] = "get_stats_data" /\ Runs(h)
    /\ GoesTo(h, "sync_daily_sheets")
    /\ UNCHANGED <<json_on_disk, cache_writes, loaded_copy>>

\* sync.py:136-142, 214-217: sync_daily_sheets returns without a write
SyncNoWrite(h) ==
    /\ position[h] = "sync_daily_sheets" /\ Runs(h)
    /\ GoesTo(h, "load")
    /\ UNCHANGED <<json_on_disk, cache_writes, loaded_copy>>

\* prediction.py:57-60: sync_daily_sheets raises; calculate_prediction
\* returns None
SyncRaises(h) ==
    /\ position[h] = "sync_daily_sheets" /\ Runs(h)
    /\ GoesTo(h, "reply_text")
    /\ UNCHANGED <<json_on_disk, cache_writes, loaded_copy>>

\* sync.py:201-209: sync_daily_sheets writes daily sheets into the cache
SyncWritesCache(h) ==
    /\ position[h] = "sync_daily_sheets" /\ Runs(h)
    /\ cache_writes < MaxWrites
    /\ cache_writes' = cache_writes + 1
    /\ GoesTo(h, "generate_attendance_json")
    /\ UNCHANGED <<json_on_disk, loaded_copy>>

\* sync.py:444: open(output_file, 'w')
JsonOpen(h) ==
    /\ position[h] = "generate_attendance_json" /\ Runs(h)
    /\ json_on_disk' = [json_on_disk EXCEPT !.exists = TRUE, !.partial = TRUE]
    /\ GoesTo(h, "json.dump")
    /\ UNCHANGED <<cache_writes, loaded_copy>>

\* sync.py:445-448: json.dump, and the file closed
JsonDump(h) ==
    /\ position[h] = "json.dump" /\ Runs(h)
    /\ json_on_disk' = [json_on_disk EXCEPT !.writes = @ + 1, !.partial = FALSE]
    /\ GoesTo(h, "load")
    /\ UNCHANGED <<cache_writes, loaded_copy>>

\* sync.py:458-476: load_attendance_from_json
LoadJson(h) ==
    /\ position[h] = "load" /\ Runs(h)
    /\ loaded_copy' =
          [loaded_copy EXCEPT ![h] =
              IF json_on_disk.exists
              THEN [kind |-> "data", writes |-> json_on_disk.writes,
                    partial |-> json_on_disk.partial]
              ELSE NothingLoaded]
    /\ GoesTo(h, "compute")
    /\ UNCHANGED <<json_on_disk, cache_writes>>

\* prediction.py:53-60: the fit on the loaded data, and the return
ReturnPrediction(h) ==
    /\ position[h] = "compute" /\ Runs(h)
    /\ GoesTo(h, "reply_text")
    /\ UNCHANGED <<json_on_disk, cache_writes, loaded_copy>>

\* handlers_join.py:160-166: the reply is sent, the handler returns
HandlerEnd(h) ==
    /\ position[h] = "reply_text" /\ Runs(h)
    /\ loaded_copy' = [loaded_copy EXCEPT ![h] = NothingLoaded]
    /\ GoesTo(h, "idle")
    /\ UNCHANGED <<json_on_disk, cache_writes>>

Handle ==
    \E h \in Handlers :
        \/ HandlerBegin(h) \/ EnterPrediction(h)
        \/ SyncNoWrite(h) \/ SyncRaises(h) \/ SyncWritesCache(h)
        \/ JsonOpen(h) \/ JsonDump(h)
        \/ LoadJson(h) \/ ReturnPrediction(h) \/ HandlerEnd(h)

(***************************************************************************)
(* prediction.py: calculate_date_probability.                              *)
(* A parameter of the distribution is [kind, value]: kind is "float" (the  *)
(* value is there: loc in thousandths of a day, scale a float that is not  *)
(* negative, df in hundredths), "negative", "nan" or "missing" (no such    *)
(* key).  A probability in percent is [kind, lo, hi]: kind is "float" for  *)
(* a number between lo and hi (the number itself when lo = hi), "nan" for  *)
(* the float that is no number.                                            *)
(***************************************************************************)
Param(kind, value) == [kind |-> kind, value |-> value]

Percent(lo, hi) == [kind |-> "float", lo |-> lo, hi |-> hi]

NanPercent == [kind |-> "nan", lo |-> 0, hi |-> 0]

\* A margin in thousandths of a day (10^12 for 10^9 days and more).
MarginMilli(margin) ==
    IF margin.m = 0 THEN 0
    ELSE IF margin.e >= 6 THEN Pow10(12)
    ELSE FToMilli(margin)

\* The Student cdf, in percent, at d thousandths of a day above loc, of a
\* distribution whose quantiles of 75% and 95% are m50 and m90 thousandths
\* above loc: the cdf grows with d and is 50% at d = 0.  Where d and a
\* quantile are both less than a thousandth, thousandths do not tell which
\* is the greater, and the answer is the whole range that is left.
CdfBand(d, m50, m90) ==
    IF d = 0
    THEN IF m90 = 0 THEN Percent(0, 100)
         ELSE IF m50 = 0 THEN Percent(5, 95)
         ELSE Percent(50, 50)
    ELSE IF d > 0
    THEN IF d > m90 THEN Percent(95, 100)
         ELSE IF d = m90 THEN Percent(95, 95)
         ELSE IF d > m50 THEN Percent(75, 95)
         ELSE IF d = m50 THEN Percent(75, 75)
         ELSE Percent(50, 75)
    ELSE IF -d > m90 THEN Percent(0, 5)
         ELSE IF -d = m90 THEN Percent(5, 5)
         ELSE IF -d > m50 THEN Percent(5, 25)
         ELSE IF -d = m50 THEN Percent(25, 25)
         ELSE Percent(25, 50)

\* scipy_stats.t.cdf(x, df, loc=loc, scale=scale) * 100: scipy gives nan,
\* and does not raise, for a parameter that is nan, a scale that is not
\* positive and a df that is not positive.
TCdf(x_milli, df, loc, scale) ==
    IF \/ df.kind /= "float" \/ loc.kind /= "float" \/ scale.kind /= "float"
    THEN NanPercent
    ELSE IF scale.value.m = 0 \/ df.value <= 0
    THEN NanPercent
    ELSE CdfBand(x_milli - loc.value,
                 MarginMilli(FMul(Lookup(tScore50Table, df.value, 1),
                                  scale.value)),
                 MarginMilli(FMul(Lookup(tScore90Table, df.value, 1),
                                  scale.value)))

\* The probability taken at the start of the day.
EndOfDay_start(ordinal) == ordinal

\* prediction.py:321-323: ordinal + 1, the end of the day of the ordinal
EndOfDay(ordinal) == ordinal + 1

\* prediction.py:309-327.  date_obj is [kind, day] (kind "None" for no
\* date), dist is [kind, loc, scale, df] (kind "None" for no dictionary).
calculate_date_probability(date_obj, dist) ==
    IF date_obj.kind /= "date" THEN Percent(0, 0)
    ELSE IF dist.kind /= "dict" THEN Percent(0, 0)
    ELSE IF "missing" \in {dist.loc.kind, dist.scale.kind, dist.df.kind}
    THEN Percent(0, 0)
    ELSE TCdf(EndOfDay(get_ordinal_date(date_obj.day)) * 1000,
              dist.df, dist.loc, dist.scale)

\* The date and the dist of a Prediction as calculate_date_probability
\* takes them.
DateOf(day) == [kind |-> "date", day |-> day]

DistOf(dist) ==
    [kind |-> "dict", loc |-> Param("float", dist.loc),
     scale |-> Param("float", dist.scale), df |-> Param("float", dist.df)]

\* The dates and the distributions of SpecProb.
MaxProbDays == 7

ProbDates ==
    {[kind |-> "None", day |-> 0]}
      \cup {[kind |-> "date", day |-> Anchor + k] : k \in 0 .. MaxProbDays}

ProbLocs ==
    {Param("missing", 0), Param("nan", 0), Param("float", 2500),
     Param("float", 4000)}

ProbScales ==
    {Param("missing", FZero), Param("nan", FZero), Param("negative", FOne),
     Param("float", FZero), Param("float", FNorm(5, -1)),
     Param("float", FNorm(2, 0))}

ProbDfs ==
    {Param("missing", 0), Param("nan", 0), Param("float", 0),
     Param("float", -50), Param("float", 300)}

ProbDists ==
    {[kind |-> "None", loc |-> Param("missing", 0),
      scale |-> Param("missing", FZero), df |-> Param("missing", 0)]}
      \cup {[kind |-> "dict", loc |-> l, scale |-> s, df |-> f] :
               l \in ProbLocs, s \in ProbScales, f \in ProbDfs}

ProbInit ==
    /\ probPc = "start"
    /\ prob_date \in ProbDates
    /\ prob_dist \in ProbDists
    /\ probability = NanPercent

ProbPark ==
    /\ probPc = "parked" /\ prob_date = <<>> /\ prob_dist = <<>>
    /\ probability = NanPercent

Probability ==
    /\ probPc = "start"
    /\ probability' = calculate_date_probability(prob_date, prob_dist)
    /\ probPc' = "done"
    /\ UNCHANGED <<prob_date, prob_dist>>

(***************************************************************************)
(* The dialogue of joining the queue: join_start, join_get_id and          *)
(* join_get_date of vlk_bot/handlers_join.py, with the date keyboards of   *)
(* vlk_bot/keyboards.py.                                                   *)
(*                                                                         *)
(* A date is its proleptic ordinal; NoDate is None.  A date text of the    *)
(* form DD.MM.YYYY is [kind, d, m, y].  A row of the queue is [ID, date,   *)
(* notes, status, changed, previous]: date and previous are date texts,    *)
(* changed is the time of the change.  user_data is a record of the keys   *)
(* the handlers use, each with the value of a key that is not there when   *)
(* the dictionary is cleared.                                              *)
(***************************************************************************)
NoDate == 0

DateText(d, m, y) == [kind |-> "text", d |-> d, m |-> m, y |-> y]

EmptyText == [kind |-> "empty", d |-> 0, m |-> 0, y |-> 0]

\* config.py:67
days_ahead == 15

Approved == "Ukhvaleno"
Pending  == "Na rozghliadi"

\* datetime.date.today(): Thursday 4.12.2025
JoinToday == Toordinal(2025, 12, 4)

\* ---- keyboards.py ------------------------------------------------------
NoDist == [kind |-> "None"]

NoPercent == [kind |-> "none", lo |-> 0, hi |-> 0]

\* keyboards.py:69-84 and 91-106: one option; percent is the probability
\* the button shows when it is 0.1 or more, NoPercent without a dist.
OptionOf(iter_date, prediction_dist) ==
    [date |-> iter_date,
     percent |-> IF prediction_dist.kind = "None" THEN NoPercent
                 ELSE calculate_date_probability(DateOf(iter_date),
                                                 prediction_dist)]

\* keyboards.py:63-86: the loop over the range, n options being there
RECURSIVE RangeOptions(_, _, _, _)
RangeOptions(iter_date, limit_date, prediction_dist, n) ==
    IF iter_date > limit_date THEN <<>>
    ELSE IF Weekday(iter_date) < 5
    THEN <<OptionOf(iter_date, prediction_dist)>>
           \o (IF n + 1 >= 30 THEN <<>>
               ELSE RangeOptions(iter_date + 1, limit_date, prediction_dist,
                                 n + 1))
    ELSE RangeOptions(iter_date + 1, limit_date, prediction_dist, n)

\* keyboards.py:87-108: the loop that adds days_ahead - buttons_added
\* buttons
RECURSIVE CountOptions(_, _, _)
CountOptions(iter_date, left, prediction_dist) ==
    IF left <= 0 THEN <<>>
    ELSE IF Weekday(iter_date) < 5
    THEN <<OptionOf(iter_date, prediction_dist)>>
           \o CountOptions(iter_date + 1, left - 1, prediction_dist)
    ELSE CountOptions(iter_date + 1, left, prediction_dist)

\* The options begin today.
generate_date_options_fromToday(today, days_to_check, ahead, start_date, end_date, prediction_dist) ==
    IF start_date /= NoDate /\ end_date /= NoDate
    THEN RangeOptions(Max(today, start_date), end_date, prediction_dist, 0)
    ELSE CountOptions(today, ahead, prediction_dist)

\* keyboards.py:47-110
generate_date_options(today, days_to_check, ahead, start_date, end_date, prediction_dist) ==
    IF start_date /= NoDate /\ end_date /= NoDate
    THEN RangeOptions(Max(today + days_to_check, start_date), end_date,
                      prediction_dist, 0)
    ELSE CountOptions(today + days_to_check, ahead, prediction_dist)

\* keyboards.py:113-131: the date buttons of the keyboard (the button
\* that cancels comes after them)
date_keyboard(today, days_to_check, ahead, start_date, end_date, prediction_dist) ==
    generate_date_options(today, days_to_check, ahead, start_date, end_date,
                          prediction_dist)

\* while d.weekday() >= 5: d += timedelta(days=1)
RECURSIVE SkipWeekend(_)
SkipWeekend(d) == IF Weekday(d) >= 5 THEN SkipWeekend(d + 1) ELSE d

\* keyboards.py:134-160
get_prediction_date_range(p, today) ==
    IF p.kind = "None"
    THEN [start_date |-> NoDate, end_date |-> NoDate, dist |-> NoDist]
    ELSE IF SkipWeekend(Max(p.mean, today + 1)) > p.h90
    THEN [start_date |-> SkipWeekend(today + 1), end_date |-> NoDate,
          dist |-> DistOf(p.dist)]
    ELSE [start_date |-> SkipWeekend(Max(p.mean, today + 1)),
          end_date |-> p.h90, dist |-> DistOf(p.dist)]

KeyboardOfRange(range, today, ahead) ==
    date_keyboard(today, 1, ahead, range.start_date, range.end_date,
                  range.dist)

\* keyboards.py:163-173
date_keyboard_from_prediction(p, today, ahead) ==
    KeyboardOfRange(get_prediction_date_range(p, today), today, ahead)

\* formatters.py:14-28
RECURSIVE EndDateLoop(_, _, _)
EndDateLoop(temp_date, added, days_count) ==
    IF added >= days_count THEN temp_date
    ELSE EndDateLoop(temp_date + 1,
                     IF Weekday(temp_date + 1) < 5 THEN added + 1 ELSE added,
                     days_count)

calculate_end_date(start_date, days_count) ==
    EndDateLoop(start_date, IF Weekday(start_date) < 5 THEN 1 ELSE 0,
                days_count)

\* ---- handlers_join.py: the texts ---------------------------------------
\* re.match(r"^(\d+|\d+\/\d+)$", text)
IdPattern(s) ==
    \/ IsDigitStr(s)
    \/ /\ Len(Split(s, "/")) = 2
       /\ IsDigitStr(Split(s, "/")[1])
       /\ IsDigitStr(Split(s, "/")[2])

\* What re.search(r'(\d{1,2})\.(\d{1,2})\.(\d{4}|\d{2})', text) finds: no
\* match, or the three numbers and the number of the digits of the third.
NoMatch == [match |-> FALSE, d |-> 0, m |-> 0, y |-> 0, ylen |-> 0]

DateInput(d, m, y, ylen) ==
    [match |-> TRUE, d |-> d, m |-> m, y |-> y, ylen |-> ylen]

NotADate == [kind |-> "ValueError", d |-> 0, m |-> 0, y |-> 0]

\* %y of strptime: 69..99 are 1969..1999, 0..68 are 2000..2068
YearOf(y, ylen) ==
    IF ylen = 2 THEN (IF y < 69 THEN 2000 + y ELSE 1900 + y) ELSE y

\* datetime.date(y, m, d), ValueError for no date of the calendar
DateOrError(d, m, y) ==
    IF y < 1 \/ m < 1 \/ m > 12 \/ d < 1 THEN NotADate
    ELSE IF d > DaysInMonth(y, m) THEN NotADate
    ELSE DateText(d, m, y)

\* handlers_join.py:190-201: strptime of the match, ValueError without one
ParseDateInput(input) ==
    IF ~input.match THEN NotADate
    ELSE DateOrError(input.d, input.m, YearOf(input.y, input.ylen))

\* strptime(previous_state, "%d.%m.%Y")
ParsePrevious(previous_state) ==
    IF previous_state.kind /= "text" THEN NotADate
    ELSE DateOrError(previous_state.d, previous_state.m, previous_state.y)

OrdinalOf(t) == Toordinal(t.y, t.m, t.d)

\* ---- handlers_join.py: user_data and the queue -------------------------
ClearedData ==
    [telegram_user_data |-> FALSE, temp_id |-> <<>>,
     previous_state |-> EmptyText, user_notes |-> "",
     prediction_bounds |-> NoPrediction,
     warning_shown |-> FALSE, warned_date |-> EmptyText]

QueueRow(id, date_text, notes, status, changed, previous) ==
    [ID |-> id, date |-> date_text, notes |-> notes, status |-> status,
     changed |-> changed, previous |-> previous]

\* handlers_join.py:106-110: the rows of the identifier that are approved,
\* and the one changed last
ApprovedRows(queue, id) ==
    {i \in 1 .. Len(queue) : queue[i].ID = id /\ queue[i].status = Approved}

LastRecordForId(queue, id) ==
    queue[CHOOSE i \in ApprovedRows(queue, id) :
             \A j \in ApprovedRows(queue, id) :
                queue[j].changed <= queue[i].changed]

\* What a handler leaves: the state of the dialogue, user_data, the queue
\* in memory, the rows of the sheet, the reply and its date buttons.
Left(state, data, queue, sheet, reply_text, reply_markup) ==
    [state |-> state, data |-> data, queue |-> queue, sheet |-> sheet,
     reply |-> reply_text, buttons |-> reply_markup]

\* ---- join_get_date -----------------------------------------------------
\* datetime.now() of the new row
JoinNow == 9

\* handlers_join.py:316-347
SaveEntry(chosen, save_ok, data, queue, sheet) ==
    IF save_ok
    THEN Left("END", ClearedData,
              Append(queue, QueueRow(data.temp_id, chosen, data.user_notes,
                                     Pending, JoinNow, data.previous_state)),
              Append(sheet, QueueRow(data.temp_id, chosen, data.user_notes,
                                     Pending, JoinNow, data.previous_state)),
              "saved", <<>>)
    ELSE Left("END", ClearedData, queue, sheet, "save failed", <<>>)

\* chosen_prob < 50 of a probability (nan is not less than anything)
Below50(p) == p.kind = "float" /\ p.hi <= 50 /\ p.lo < 50

\* handlers_join.py:258-263
ChosenProb(chosen_date, dist) ==
    TCdf(EndOfDay(get_ordinal_date(chosen_date)) * 1000,
         DistOf(dist).df, DistOf(dist).loc, DistOf(dist).scale)

\* handlers_join.py:278-286: threshold_date
ThresholdDate(p, today) ==
    Max(p.h90, calculate_end_date(SkipWeekend(today + 1), days_ahead))

\* handlers_join.py:265-302: the warning the date calls for
WarnMsg(chosen_date, p, today) ==
    IF chosen_date < p.mean
    THEN IF Below50(ChosenProb(chosen_date, p.dist)) THEN "low probability"
         ELSE "none"
    ELSE IF chosen_date > p.h90 /\ chosen_date > ThresholdDate(p, today)
    THEN "too far"
    ELSE "none"

\* The date warned about counts however many inputs ago the warning was.
Confirms_never(data, chosen) == FALSE

\* handlers_join.py:251: warning_shown and warned_date_str and
\* warned_date_str == chosen_date.strftime("%d.%m.%Y")
Confirms(data, chosen) ==
    data.warning_shown /\ data.warned_date.kind = "text"
        /\ data.warned_date = chosen

\* handlers_join.py:247-314
WarnOrSave(chosen, save_ok, data, queue, sheet, today) ==
    IF data.prediction_bounds.kind = "None"
    THEN SaveEntry(chosen, save_ok, data, queue, sheet)
    ELSE IF Confirms(data, chosen)
    THEN SaveEntry(chosen, save_ok, data, queue, sheet)
    ELSE IF WarnMsg(OrdinalOf(chosen), data.prediction_bounds, today) /= "none"
    THEN Left("JOIN_GETTING_DATE",
              [data EXCEPT !.warning_shown = TRUE, !.warned_date = chosen],
              queue, sheet,
              WarnMsg(OrdinalOf(chosen), data.prediction_bounds, today),
              date_keyboard_from_prediction(data.prediction_bounds, today,
                                            days_ahead))
    ELSE SaveEntry(chosen, save_ok,
                   [data EXCEPT !.warning_shown = FALSE,
                                !.warned_date = EmptyText],
                   queue, sheet)

\* handlers_join.py:232-244: the date of the previous record, where it
\* parses
SameAsPrevious(chosen, previous_state) ==
    /\ previous_state.kind /= "empty"
    /\ ParsePrevious(previous_state).kind = "text"
    /\ OrdinalOf(ParsePrevious(previous_state)) = OrdinalOf(chosen)

\* Today's date passes.
NotLater_todayPasses(chosen_date, current_date_obj) ==
    chosen_date < current_date_obj

\* handlers_join.py:215: if chosen_date <= current_date_obj
NotLater(chosen_date, current_date_obj) == chosen_date <= current_date_obj

\* handlers_join.py:212-244
CheckDate(chosen, save_ok, data, queue, sheet, today) ==
    IF NotLater(OrdinalOf(chosen), today)
    THEN Left("JOIN_GETTING_DATE", data, queue, sheet, "not later than today",
              date_keyboard_from_prediction(data.prediction_bounds, today,
                                            days_ahead))
    ELSE IF Weekday(OrdinalOf(chosen)) >= 5
    THEN Left("JOIN_GETTING_DATE", data, queue, sheet, "weekend",
              date_keyboard_from_prediction(data.prediction_bounds, today,
                                            days_ahead))
    ELSE IF SameAsPrevious(chosen, data.previous_state)
    THEN Left("JOIN_GETTING_DATE", data, queue, sheet, "same as previous",
              date_keyboard_from_prediction(data.prediction_bounds, today,
                                            days_ahead))
    ELSE WarnOrSave(chosen, save_ok, data, queue, sheet, today)

\* handlers_join.py:179-347
join_get_date(input, save_ok, data, queue, sheet, today) ==
    IF ParseDateInput(input).kind /= "text"
    THEN Left("JOIN_GETTING_DATE", data, queue, sheet, "bad format",
              date_keyboard(today, 1, days_ahead, NoDate, NoDate, NoDist))
    ELSE CheckDate(ParseDateInput(input), save_ok, data, queue, sheet, today)

\* ---- join_get_id -------------------------------------------------------
\* handlers_join.py:112-132: previous_state and user_notes
WithPrevious(data, queue, id) ==
    IF ApprovedRows(queue, id) = {}
    THEN [data EXCEPT !.previous_state = EmptyText]
    ELSE [data EXCEPT
            !.previous_state = LastRecordForId(queue, id).date,
            !.user_notes = LastRecordForId(queue, id).notes]

\* handlers_join.py:142-170: the identifier may register
OfferDates(data, forecast, user_warning, queue, sheet, today) ==
    Left("JOIN_GETTING_DATE",
         [data EXCEPT
            !.prediction_bounds = forecast,
            !.user_notes = IF user_warning /= "" THEN "Ostannia sproba"
                           ELSE data.user_notes],
         queue, sheet, "choose a date",
         IF forecast.kind /= "None"
         THEN date_keyboard_from_prediction(forecast, today, days_ahead)
         ELSE date_keyboard(today, 1, days_ahead, NoDate, NoDate, NoDist))

\* handlers_join.py:138-140
AdminOverride(check, admin) ==
    IF admin THEN [can_register |-> TRUE, user_warning |-> ""] ELSE check

\* handlers_join.py:85-177; check is what check_id_for_queue returned and
\* forecast what calculate_prediction returned
join_get_id(text, check, admin, forecast, data, queue, sheet, today) ==
    IF ~IdPattern(Strip(text))
    THEN Left("JOIN_GETTING_ID", data, queue, sheet, "bad id", <<>>)
    ELSE IF AdminOverride(check, admin).can_register
    THEN OfferDates(WithPrevious([data EXCEPT !.temp_id = Strip(text),
                                              !.warning_shown = FALSE,
                                              !.prediction_bounds = NoPrediction],
                                 queue, Strip(text)),
                    forecast, AdminOverride(check, admin).user_warning,
                    queue, sheet, today)
    ELSE Left("END", ClearedData, queue, sheet, "may not register", <<>>)

\* ---- SpecJoin ----------------------------------------------------------
MaxInputs == 3

JoinIds == {<<"9">>, <<"9", "/", "1">>, <<" ", "9">>, <<"a">>, <<"9", "/">>}

CheckOutcomes ==
    {[can_register |-> TRUE, user_warning |-> ""],
     [can_register |-> TRUE, user_warning |-> "last attempt"],
     [can_register |-> FALSE, user_warning |-> "missed days"]}

\* A Prediction as calculate_prediction gives it, of which the dialogue
\* reads mean, h90 and dist.
JoinPrediction(mean, h90, frac, scale) ==
    [kind |-> "Prediction", mean |-> mean, h90 |-> h90,
     dist |-> [loc |-> get_ordinal_date(mean) * 1000 + frac,
               scale |-> scale, df |-> 300]]

JoinPredictions ==
    {NoPrediction,
     JoinPrediction(Toordinal(2025, 12, 10), Toordinal(2025, 12, 12), 300,
                    FNorm(9, -1)),
     JoinPrediction(Toordinal(2025, 12, 10), Toordinal(2025, 12, 12), 0,
                    FNorm(9, -1)),
     JoinPrediction(Toordinal(2025, 12, 10), Toordinal(2025, 12, 10), 300,
                    FZero)}

JoinDateInputs ==
    {NoMatch, DateInput(31, 2, 2025, 4), DateInput(3, 12, 2025, 4),
     DateInput(4, 12, 2025, 4), DateInput(5, 12, 2025, 4),
     DateInput(5, 12, 25, 2), DateInput(6, 12, 2025, 4),
     DateInput(9, 12, 2025, 4), DateInput(12, 12, 2025, 4),
     DateInput(15, 12, 2025, 4), DateInput(26, 12, 2025, 4)}

JoinSheets ==
    {<<>>,
     <<QueueRow(<<"9">>, DateText(12, 12, 2025), "", Approved, 1, EmptyText)>>,
     <<QueueRow(<<"9">>, DateText(31, 2, 2025), "", Approved, 1, EmptyText)>>,
     <<QueueRow(<<"9">>, DateText(12, 12, 2025), "", Approved, 2, EmptyText),
       QueueRow(<<"9">>, DateText(15, 12, 2025), "", Approved, 1, EmptyText),
       QueueRow(<<"9">>, DateText(9, 12, 2025), "", Pending, 3, EmptyText)>>}

JoinInit ==
    /\ joinState = "idle"
    /\ user_data = ClearedData
    /\ queue_df = <<>>
    /\ queue_sheet \in JoinSheets
    /\ reply = ""
    /\ buttons = <<>>
    /\ date_inputs = <<>>

JoinPark ==
    /\ joinState = "parked" /\ user_data = <<>> /\ queue_df = <<>>
    /\ queue_sheet = <<>> /\ reply = "" /\ buttons = <<>> /\ date_inputs = <<>>

\* handlers_join.py:50-83; load is FALSE when load_queue_data gives None
JoinStart ==
    /\ joinState = "idle"
    /\ \E banned \in BOOLEAN, load \in BOOLEAN :
         IF banned
         THEN /\ joinState' = "END" /\ reply' = "banned"
              /\ user_data' = ClearedData
              /\ UNCHANGED queue_df
         ELSE IF ~load
         THEN /\ joinState' = "END" /\ reply' = "load failed"
              /\ user_data' = ClearedData
              /\ UNCHANGED queue_df
         ELSE /\ joinState' = "JOIN_GETTING_ID" /\ reply' = "enter the id"
              /\ user_data' = [user_data EXCEPT !.telegram_user_data = TRUE]
              /\ queue_df' = queue_sheet
    /\ UNCHANGED <<queue_sheet, buttons, date_inputs>>

\* The handler has run and left what.
Leaves(what) ==
    /\ joinState' = what.state
    /\ user_data' = what.data
    /\ queue_df' = what.queue
    /\ queue_sheet' = what.sheet
    /\ reply' = what.reply
    /\ buttons' = what.buttons

\* The prediction of the dialogue calls for a warning about the date of
\* the input.
Warranted(input, data, today) ==
    /\ ParseDateInput(input).kind = "text"
    /\ data.prediction_bounds.kind /= "None"
    /\ WarnMsg(OrdinalOf(ParseDateInput(input)), data.prediction_bounds,
               today) /= "none"

JoinGetId ==
    /\ joinState = "JOIN_GETTING_ID"
    /\ \E text \in JoinIds, check \in CheckOutcomes, admin \in BOOLEAN,
          forecast \in JoinPredictions :
         Leaves(join_get_id(text, check, admin, forecast, user_data,
                            queue_df, queue_sheet, JoinToday))
    /\ UNCHANGED date_inputs

JoinGetDate ==
    /\ joinState = "JOIN_GETTING_DATE"
    /\ Len(date_inputs) < MaxInputs
    /\ \E input \in JoinDateInputs, save_ok \in BOOLEAN :
         /\ Leaves(join_get_date(input, save_ok, user_data, queue_df,
                                 queue_sheet, JoinToday))
         /\ date_inputs' =
               Append(date_inputs,
                      [input |-> input, reply |-> reply',
                       warranted |-> Warranted(input, user_data, JoinToday)])

(***************************************************************************)
(* The admin commands that change the lists: admin_only, grant_admin,      *)
(* drop_admin, ban and unban of vlk_bot/handlers_admin.py.                 *)
(*                                                                         *)
(* settings is [ADMIN_IDS, BANLIST, config, config_ini]: the two lists of  *)
(* vlk_bot/config.py, the two options of config['BOT_SETTINGS'] and the    *)
(* same options as config.ini holds them.  An option is kept as the list   *)
(* it was joined from.                                                     *)
(***************************************************************************)
Options(admins, bans) == [ADMIN_IDS |-> admins, BANLIST |-> bans]

ItemsOf(list) == {list[i] : i \in 1 .. Len(list)}

\* list.remove(x) of a list that holds x
RECURSIVE Remove(_, _)
Remove(list, x) ==
    IF list[1] = x THEN Tail(list) ELSE <<list[1]>> \o Remove(Tail(list), x)

\* Every user passes for an admin.
is_admin_anyone(tg_id, admins) == TRUE

\* utils.py:16-19
is_admin(tg_id, admins) == tg_id \in ItemsOf(admins)

\* config.py:72-75: config.ini is written anew, or open() raises
save_config(settings, written) ==
    IF written THEN [settings EXCEPT !.config_ini = settings.config]
    ELSE settings

\* handlers_admin.py:141-143
AppendAdmin(settings, new_admin_id, written) ==
    save_config([settings EXCEPT
                   !.ADMIN_IDS = Append(@, new_admin_id),
                   !.config.ADMIN_IDS = Append(settings.ADMIN_IDS, new_admin_id)],
                written)

\* handlers_admin.py:117-155
grant_admin(args, user, settings, written) ==
    IF Len(args) = 0 THEN settings
    ELSE IF IntParse(args[1]) = ValueError THEN settings
    ELSE IF IntParse(args[1]).num \in ItemsOf(settings.ADMIN_IDS) THEN settings
    ELSE AppendAdmin(settings, IntParse(args[1]).num, written)

\* handlers_admin.py:191-193
RemoveAdmin(settings, admin_to_remove_id, written) ==
    save_config([settings EXCEPT
                   !.ADMIN_IDS = Remove(@, admin_to_remove_id),
                   !.config.ADMIN_IDS = Remove(settings.ADMIN_IDS,
                                               admin_to_remove_id)],
                written)

\* The sender may remove themself.
drop_admin_self(args, user, settings, written) ==
    IF Len(args) = 0 THEN settings
    ELSE IF IntParse(args[1]) = ValueError THEN settings
    ELSE IF IntParse(args[1]).num \notin ItemsOf(settings.ADMIN_IDS)
    THEN settings
    ELSE RemoveAdmin(settings, IntParse(args[1]).num, written)

\* handlers_admin.py:159-205
drop_admin(args, user, settings, written) ==
    IF Len(args) = 0 THEN settings
    ELSE IF IntParse(args[1]) = ValueError THEN settings
    ELSE IF IntParse(args[1]).num = user THEN settings
    ELSE IF IntParse(args[1]).num \notin ItemsOf(settings.ADMIN_IDS)
    THEN settings
    ELSE RemoveAdmin(settings, IntParse(args[1]).num, written)

\* handlers_admin.py:233-235
AppendBan(settings, new_ban_id, written) ==
    save_config([settings EXCEPT
                   !.BANLIST = Append(@, new_ban_id),
                   !.config.BANLIST = Append(settings.BANLIST, new_ban_id)],
                written)

\* handlers_admin.py:209-247
ban(args, user, settings, written) ==
    IF Len(args) = 0 THEN settings
    ELSE IF IntParse(args[1]) = ValueError THEN settings
    ELSE IF IntParse(args[1]).num \in ItemsOf(settings.BANLIST) THEN settings
    ELSE AppendBan(settings, IntParse(args[1]).num, written)

\* handlers_admin.py:276-278
RemoveBan(settings, unban_id, written) ==
    save_config([settings EXCEPT
                   !.BANLIST = Remove(@, unban_id),
                   !.config.BANLIST = Remove(settings.BANLIST, unban_id)],
                written)

\* handlers_admin.py:251-289
unban(args, user, settings, written) ==
    IF Len(args) = 0 THEN settings
    ELSE IF IntParse(args[1]) = ValueError THEN settings
    ELSE IF IntParse(args[1]).num \notin ItemsOf(settings.BANLIST)
    THEN settings
    ELSE RemoveBan(settings, IntParse(args[1]).num, written)

\* handlers_admin.py:23-33: the wrapper of a command
admin_only(func(_, _, _, _), args, user, settings, written) ==
    IF ~is_admin(user, settings.ADMIN_IDS) THEN settings
    ELSE func(args, user, settings, written)

\* ---- SpecAdmin ---------------------------------------------------------
TelegramUsers == {1, 2, 3}

MaxCommands == 3

CommandArgs ==
    {<<>>, << <<"1">> >>, << <<"2">> >>, << <<"3">>, <<"2">> >>,
     << <<"x">> >>}

NoCommand == [name |-> "", user |-> 0, args |-> <<>>, number |-> 0]

Settings == [ADMIN_IDS |-> ADMIN_IDS, BANLIST |-> BANLIST,
             config |-> config, config_ini |-> config_ini]

AdminInit ==
    /\ ADMIN_IDS = <<1>>
    /\ BANLIST = <<3>>
    /\ config = Options(ADMIN_IDS, BANLIST)
    /\ config_ini = config
    /\ command = NoCommand

AdminPark ==
    /\ ADMIN_IDS = <<>> /\ BANLIST = <<>> /\ config = <<>>
    /\ config_ini = <<>> /\ command = NoCommand

\* The command has run and left the settings.
CommandRuns(name, user, args, left) ==
    /\ ADMIN_IDS' = left.ADMIN_IDS
    /\ BANLIST' = left.BANLIST
    /\ config' = left.config
    /\ config_ini' = left.config_ini
    /\ command.number < MaxCommands
    /\ command' = [name |-> name, user |-> user, args |-> args,
                   number |-> command.number + 1]

GrantAdmin ==
    \E user \in TelegramUsers, args \in CommandArgs, written \in BOOLEAN :
        CommandRuns("grant_admin", user, args,
              admin_only(grant_admin, args, user, Settings, written))

DropAdmin ==
    \E user \in TelegramUsers, args \in CommandArgs, written \in BOOLEAN :
        CommandRuns("drop_admin", user, args,
              admin_only(drop_admin, args, user, Settings, written))

Ban ==
    \E user \in TelegramUsers, args \in CommandArgs, written \in BOOLEAN :
        CommandRuns("ban", user, args,
              admin_only(ban, args, user, Settings, written))

Unban ==
    \E user \in TelegramUsers, args \in CommandArgs, written \in BOOLEAN :
        CommandRuns("unban", user, args,
              admin_only(unban, args, user, Settings, written))

(***************************************************************************)
(* The cleanup of the queue (handlers_admin.py:36-91).  A record of the    *)
(* queue is a row of the Google Sheet: its ID, the text of its date, its   *)
(* status, the time it was changed (0 for a text that is no time) and the  *)
(* TG ID of the user who made it.                                          *)
(***************************************************************************)
Rejected == "Vidkhyleno"

\* handlers_admin.py:54: Статус.astype(str).str.strip().str.lower()
StatusClean(status) ==
    CASE status = Approved -> "ukhvaleno"
      [] status = Pending  -> "na rozghliadi"
      [] status = Rejected -> "vidkhyleno"
      [] OTHER -> status

\* pd.to_datetime(..., errors='coerce'): NaT for a text that does not parse
NaT == [isna |-> TRUE, value |-> 0]

Timestamp(value) == [isna |-> FALSE, value |-> value]

\* handlers_admin.py:55-56: Дата_dt
Date_dt(record) ==
    IF ParsePrevious(record.booked).kind = "text"
    THEN Timestamp(OrdinalOf(ParsePrevious(record.booked)))
    ELSE NaT

\* handlers_admin.py:57-58: Змінено_dt
Changed_dt(record) ==
    IF record.changed = 0 THEN NaT ELSE Timestamp(record.changed)

\* The date of today counted as past.
IsPast_orToday(record, today) ==
    ~ Date_dt(record).isna /\ Date_dt(record).value <= today

\* handlers_admin.py:63: (Дата_dt.dt.date < current_date_obj) & notna()
IsPast(record, today) ==
    ~ Date_dt(record).isna /\ Date_dt(record).value < today

\* (Дата_dt.dt.date >= current_date_obj)
NotPast(record, today) ==
    ~ Date_dt(record).isna /\ Date_dt(record).value >= today

\* The rows of the identifier whose Змінено_dt is a time.
Stamped(df, cur_id) ==
    {i \in 1 .. Len(df) : df[i].ID = cur_id /\ ~ Changed_dt(df[i]).isna}

\* handlers_admin.py:66: idxmax() skips NaT and takes the first of the
\* greatest; 0 stands for its failure when every Змінено_dt is NaT
idxmax(df, cur_id) ==
    IF Stamped(df, cur_id) = {} THEN 0
    ELSE CHOOSE i \in Stamped(df, cur_id) :
            \A j \in Stamped(df, cur_id) :
               \/ df[j].changed < df[i].changed
               \/ df[j].changed = df[i].changed /\ i <= j

\* (ID == cur_id) & (Змінено_dt < Змінено_dt[max_mod_idx])
Older(df, i, cur_id, max_mod_idx) ==
    /\ df[i].ID = cur_id
    /\ ~ Changed_dt(df[i]).isna
    /\ df[i].changed < df[max_mod_idx].changed

OpenStatus(record) ==
    StatusClean(record.status) \in {"na rozghliadi", "ukhvaleno"}

\* handlers_admin.py:68
DropRejected(df, cur_id, max_mod_idx, today) ==
    {i \in 1 .. Len(df) :
        /\ Older(df, i, cur_id, max_mod_idx)
        /\ (NotPast(df[i], today) \/ Date_dt(df[i]).isna)
        /\ StatusClean(df[i].status) = "vidkhyleno"}

\* handlers_admin.py:70
DropSameUser(df, cur_id, max_mod_idx, TG_ID) ==
    {i \in 1 .. Len(df) :
        /\ Older(df, i, cur_id, max_mod_idx)
        /\ OpenStatus(df[i])
        /\ df[i].tg = TG_ID}

\* handlers_admin.py:71
DropUndated(df, cur_id, max_mod_idx, TG_ID) ==
    {i \in 1 .. Len(df) :
        /\ Older(df, i, cur_id, max_mod_idx)
        /\ OpenStatus(df[i])
        /\ df[i].tg /= TG_ID
        /\ Date_dt(df[i]).isna}

\* handlers_admin.py:72-74
DropAfterVisit(df, cur_id, max_mod_idx, TG_ID, today) ==
    IF IsPast(df[max_mod_idx], today)
    THEN {i \in 1 .. Len(df) :
            /\ Older(df, i, cur_id, max_mod_idx)
            /\ OpenStatus(df[i])
            /\ df[i].tg /= TG_ID
            /\ NotPast(df[i], today)}
    ELSE {}

\* handlers_admin.py:66-74: what one identifier adds to index_to_drop
DropOfId(df, cur_id, max_mod_idx, TG_ID, today) ==
    DropRejected(df, cur_id, max_mod_idx, today)
    \cup (IF StatusClean(df[max_mod_idx].status) = "ukhvaleno"
          THEN DropSameUser(df, cur_id, max_mod_idx, TG_ID)
               \cup DropUndated(df, cur_id, max_mod_idx, TG_ID)
               \cup DropAfterVisit(df, cur_id, max_mod_idx, TG_ID, today)
          ELSE {})

\* handlers_admin.py:61-74: the dates that are past, and the loop over
\* unique_ids (every row names one of them)
index_to_drop(df, today) ==
    {i \in 1 .. Len(df) : IsPast(df[i], today)}
    \cup UNION {DropOfId(df, df[k].ID, idxmax(df, df[k].ID),
                         Strip(df[idxmax(df, df[k].ID)].tg), today) :
                  k \in 1 .. Len(df)}

\* sort_df.drop(index=unique_index_to_drop)
RECURSIVE Drop(_, _, _)
Drop(df, dropped, i) ==
    IF i > Len(df) THEN <<>>
    ELSE IF i \in dropped THEN Drop(df, dropped, i + 1)
    ELSE <<df[i]>> \o Drop(df, dropped, i + 1)

\* sheets.py:140-197, save_queue_data_full: the sheet is cleared, then
\* written; either request can fail, and False is returned
SaveOutcomes == {"written", "clear fails", "update fails"}

save_queue_data_full(df, sheet, outcome) ==
    CASE outcome = "written"      -> [ok |-> TRUE, sheet |-> df]
      [] outcome = "clear fails"  -> [ok |-> FALSE, sheet |-> sheet]
      [] outcome = "update fails" -> [ok |-> FALSE, sheet |-> <<>>]

\* What perform_queue_cleanup leaves: the number it returns or the
\* exception, config.queue_df, the sheet, and the numbers of the records
\* it loaded and kept.
CleanupLeft(kind, returned, memory, sheet, initial, kept) ==
    [kind |-> kind, returned |-> returned, memory |-> memory,
     sheet |-> sheet, initial |-> initial, kept |-> kept]

\* handlers_admin.py:76-91
KeepAndSave(records_to_keep, saved, initial_records_count) ==
    IF ~ saved.ok
    THEN CleanupLeft("returned", -1, records_to_keep, saved.sheet,
                     initial_records_count, Len(records_to_keep))
    ELSE CleanupLeft("returned",
                     initial_records_count - Len(records_to_keep),
                     records_to_keep, saved.sheet,
                     initial_records_count, Len(records_to_keep))

\* handlers_admin.py:36-91
perform_queue_cleanup(loaded, memory, sheet, today, save_outcome) ==
    IF ~ loaded
    THEN CleanupLeft("returned", -1, memory, sheet, 0, 0)
    ELSE IF Len(sheet) = 0
    THEN CleanupLeft("returned", 0, memory, sheet, 0, 0)
    ELSE IF \E k \in 1 .. Len(sheet) : idxmax(sheet, sheet[k].ID) = 0
    THEN CleanupLeft("raised", 0, memory, sheet, Len(sheet), 0)
    ELSE KeepAndSave(Drop(sheet, index_to_drop(sheet, today), 1),
                     save_queue_data_full(
                         Drop(sheet, index_to_drop(sheet, today), 1),
                         sheet, save_outcome),
                     Len(sheet))

\* ---- the queues that are cleaned ----------------------------------------
MaxRecords == 2

\* datetime.date.today()
CleanupToday == JoinToday

RecordDates ==
    {DateText(3, 12, 2025), DateText(4, 12, 2025), EmptyText}

\* The records of identifier 1: those user 7 made at either time and those
\* user 8 made at the earlier time, and the rejected ones; the records of
\* identifier 2 were changed at a time or hold a text that is no time.
Records ==
    [ID : {"1"}, booked : RecordDates, status : {Approved, Pending},
     changed : 1 .. 2, tg : {<<"7">>}]
    \cup [ID : {"1"}, booked : RecordDates, status : {Approved, Pending},
          changed : {1}, tg : {<<"8">>}]
    \cup [ID : {"1"}, booked : {DateText(4, 12, 2025), EmptyText},
          status : {Rejected}, changed : {1}, tg : {<<"7">>}]
    \cup [ID : {"2"}, booked : {DateText(4, 12, 2025)}, status : {Approved},
          changed : 0 .. 1, tg : {<<"7">>}]

Sheets == UNION {[1 .. n -> Records] : n \in 0 .. MaxRecords}

NotCleaned == CleanupLeft("none", 0, <<>>, <<>>, 0, 0)

CleanupInit ==
    /\ cleanupPc = "start"
    /\ google_sheet \in Sheets
    /\ memory_df = <<>>
    /\ before_cleanup = <<>>
    /\ cleaned = NotCleaned

CleanupPark ==
    /\ cleanupPc = "parked" /\ google_sheet = <<>> /\ memory_df = <<>>
    /\ before_cleanup = <<>> /\ cleaned = NotCleaned

\* One run of perform_queue_cleanup, by the schedule or by /clear_queue.
Cleanup ==
    /\ cleanupPc = "start"
    /\ \E loaded \in BOOLEAN, save_outcome \in SaveOutcomes :
          cleaned' = perform_queue_cleanup(loaded, memory_df, google_sheet,
                                           CleanupToday, save_outcome)
    /\ google_sheet' = cleaned'.sheet
    /\ memory_df' = cleaned'.memory
    /\ before_cleanup' = google_sheet
    /\ cleanupPc' = "done"

(***************************************************************************)
(* The two data sources of calculate_prediction_with_daily_data            *)
(* (prediction.py:182-220) over one cache of daily sheets: the attendance  *)
(* JSON that generate_attendance_json writes from the cache, and the       *)
(* cached sheets themselves when no attendance JSON can be loaded.  The    *)
(* sheet of day k holds the identifier 2k - 1, or 2k - 1 and 2k, entered.  *)
(***************************************************************************)
MaxSheets == 5

SheetKinds == {"one", "two"}

PersonRow(n) == << <<"1">>, IntStr(n), <<"Zaishov">> >>

PeopleOf(k, kind) ==
    IF kind = "one" THEN <<PersonRow(2 * k - 1)>>
    ELSE <<PersonRow(2 * k - 1), PersonRow(2 * k)>>

CacheOfPeople(kinds) ==
    [k \in 1 .. Len(kinds) |->
        [date |-> DayDate(k),
         rows |-> <<BannerRow, BannerRow, HeaderRow>> \o PeopleOf(k, kinds[k])]]

PeopleCaches ==
    {CacheOfPeople(kinds) :
        kinds \in UNION {[1 .. n -> SheetKinds] : n \in 0 .. MaxSheets}}

\* The identifiers asked about: one inside the corpus, one beyond it.
AskedIds == {3, 2 * MaxSheets + 2}

NotAsked == {[kind |-> "not asked"]}

PathsInit ==
    /\ pathsPc = "start"
    /\ day_files \in PeopleCaches
    /\ corpus_file = NoJsonFile
    /\ asked_id = 0
    /\ by_json = NotAsked
    /\ by_csv = NotAsked

PathsPark ==
    /\ pathsPc = "parked" /\ day_files = <<>> /\ corpus_file = NoJsonFile
    /\ asked_id = 0 /\ by_json = NotAsked /\ by_csv = NotAsked

\* sync.py:386-442: the attendance JSON is written from the cache
PersistCorpus ==
    /\ pathsPc = "start"
    /\ corpus_file' = generate_attendance_json(day_files, SheetToDate(day_files),
                                               corpus_file)
    /\ pathsPc' = "persisted"
    /\ UNCHANGED <<day_files, asked_id, by_json, by_csv>>

\* prediction.py:182-195: the call with the attendance JSON on the disk
ViaJson ==
    /\ pathsPc = "persisted"
    /\ \E uid \in AskedIds :
          /\ asked_id' = uid
          /\ by_json' = calculate_prediction_with_daily_data(uid, corpus_file,
                                                             day_files)
    /\ pathsPc' = "by json"
    /\ UNCHANGED <<day_files, corpus_file, by_csv>>

\* prediction.py:182-220: the same call when load_attendance_from_json
\* gives None, the file being gone or unreadable
ViaCsv ==
    /\ pathsPc = "by json"
    /\ by_csv' = calculate_prediction_with_daily_data(asked_id, NoJsonFile,
                                                      day_files)
    /\ pathsPc' = "by csv"
    /\ UNCHANGED <<day_files, corpus_file, asked_id, by_json>>

(***************************************************************************)
(* The cancellation dialogue of vlk_bot/handlers_cancel.py:                *)
(* cancel_record_start loads the queue into config.queue_df and            *)
(* cancel_record_get_id appends the cancellation record.  A record of the  *)
(* queue is a QueueRow; changed is the time of 'Змінено' in seconds, 0 for *)
(* a text that is no time.                                                 *)
(***************************************************************************)
\* handlers_cancel.py:76: .fillna("01.01.2025 00:00:00"), the time that
\* stands for a 'Змінено' that does not parse
FillTime == 2

\* handlers_cancel.py:76: Змінено_dt
Changed_filled(row) == IF row.changed = 0 THEN FillTime ELSE row.changed

\* handlers_cancel.py:78: the rows of the identifier
RowsOfId(queue, id) == {i \in 1 .. Len(queue) : queue[i].ID = id}

\* handlers_cancel.py:78: the rows that sort_values(by='Змінено_dt',
\* ascending=False) may put first: no row of the identifier is later
FirstSorted(queue, id) ==
    {i \in RowsOfId(queue, id) :
        \A j \in RowsOfId(queue, id) :
           Changed_filled(queue[j]) <= Changed_filled(queue[i])}

\* A cancellation is taken for every row of a status but 'Відхилено'.
Cancellable_any(row) == row.date /= EmptyText \/ row.status /= Rejected

\* handlers_cancel.py:80: the date is not '', or it is '' and the status
\* is 'Відхилено'
Cancellable(row) ==
    \/ row.date /= EmptyText
    \/ row.date = EmptyText /\ row.status = Rejected

\* handlers_cancel.py:83-91
new_entry(id_to_cancel, previous_date, now) ==
    QueueRow(id_to_cancel, EmptyText, "", Pending, now, previous_date)

\* What cancel_record_get_id leaves: the state of the dialogue,
\* config.queue_df, the rows of the sheet and the reply.
CancelLeft(state, queue, sheet, reply_text) ==
    [state |-> state, queue |-> queue, sheet |-> sheet, reply |-> reply_text]

\* handlers_cancel.py:93-109: save_queue_data appends the row to the sheet
\* or fails, and config.queue_df takes the row when it was saved
SaveCancel(entry, save_ok, queue, sheet) ==
    IF save_ok
    THEN CancelLeft("END", Append(queue, entry), Append(sheet, entry),
                    "cancellation created")
    ELSE CancelLeft("END", queue, sheet, "save failed")

\* handlers_cancel.py:56-125; first is the row the sort put first, 0 when
\* the identifier has no row
cancel_record_get_id(text, first, now, save_ok, queue, sheet) ==
    IF ~IdPattern(Strip(text))
    THEN CancelLeft("CANCEL_GETTING_ID", queue, sheet, "bad id")
    ELSE IF first /= 0 /\ Cancellable(queue[first])
    THEN SaveCancel(new_entry(Strip(text), queue[first].date, now),
                    save_ok, queue, sheet)
    ELSE IF first /= 0 /\ queue[first].date = EmptyText
                       /\ queue[first].status /= Rejected
    THEN CancelLeft("END", queue, sheet, "already requested")
    ELSE CancelLeft("END", queue, sheet, "not found")

(***************************************************************************)
(* SpecCancel: a sheet of at most MaxCancelRows records, and at most       *)
(* MaxCancels dialogues one after the other; the clock of                  *)
(* datetime.now() stands or moves on between the calls.                    *)
(***************************************************************************)
MaxCancelRows == 2
MaxCancels    == 2

\* the time of the first call
CancelClock == FillTime + 1

CancelDate == DateText(5, 12, 2025)

\* The records of identifier 1 changed at the time of the first call, in
\* every status with and without a date; two whose 'Змінено' is no time,
\* one changed before 2025, and a record of identifier 1/1.
CancelRecords ==
    {QueueRow(<<"1">>, d, "", s, CancelClock, EmptyText) :
        d \in {CancelDate, EmptyText}, s \in {Approved, Pending, Rejected}}
    \cup {QueueRow(<<"1">>, CancelDate, "", Approved, 0, EmptyText),
          QueueRow(<<"1">>, EmptyText, "", Pending, 0, CancelDate),
          QueueRow(<<"1">>, CancelDate, "", Approved, 1, EmptyText),
          QueueRow(<<"1", "/", "1">>, CancelDate, "", Approved, CancelClock,
                   EmptyText)}

CancelSheets == UNION {[1 .. n -> CancelRecords] : n \in 0 .. MaxCancelRows}

CancelTexts == {<<"1">>, <<" ", "1">>, <<"2">>, <<"1", "/">>}

\* Nothing was asked yet.
NotAskedToCancel ==
    [asked |-> FALSE, id |-> <<>>, first |-> 0, seen |-> <<>>, now |-> 0]

CancelInit ==
    /\ cancelPc = "idle"
    /\ cancel_sheet \in CancelSheets
    /\ cancel_df = <<>>
    /\ cancel_clock = CancelClock
    /\ cancel_calls = 0
    /\ cancel_asked = NotAskedToCancel
    /\ cancel_reply = ""

CancelPark ==
    /\ cancelPc = "parked" /\ cancel_sheet = <<>> /\ cancel_df = <<>>
    /\ cancel_clock = 0 /\ cancel_calls = 0
    /\ cancel_asked = NotAskedToCancel /\ cancel_reply = ""

\* handlers_cancel.py:21-53; load is FALSE when load_queue_data gives None
CancelStart ==
    /\ cancelPc \in {"idle", "END"}
    /\ cancel_calls < MaxCancels
    /\ \E banned \in BOOLEAN, load \in BOOLEAN :
         IF banned
         THEN /\ cancelPc' = "END" /\ cancel_reply' = "banned"
              /\ UNCHANGED cancel_df
         ELSE IF ~load
         THEN /\ cancelPc' = "END" /\ cancel_reply' = "load failed"
              /\ cancel_df' = <<>>
         ELSE /\ cancelPc' = "CANCEL_GETTING_ID"
              /\ cancel_reply' = "enter the id"
              /\ cancel_df' = cancel_sheet
    /\ cancel_calls' = cancel_calls + 1
    /\ UNCHANGED <<cancel_sheet, cancel_clock, cancel_asked>>

\* the next second, as far as the clock is followed
Later(clock) ==
    IF clock < CancelClock + MaxCancels THEN {clock + 1} ELSE {}

\* One message to cancel_record_get_id, at the second of the clock or at
\* the next one.
CancelGetId ==
    /\ cancelPc = "CANCEL_GETTING_ID"
    /\ \E text \in CancelTexts, save_ok \in BOOLEAN,
          now \in {cancel_clock} \cup Later(cancel_clock) :
       \E first \in IF FirstSorted(cancel_df, Strip(text)) = {} THEN {0}
                    ELSE FirstSorted(cancel_df, Strip(text)) :
         /\ cancel_asked' = [asked |-> IdPattern(Strip(text)),
                             id |-> Strip(text), first |-> first,
                             seen |-> cancel_df, now |-> now]
         /\ cancel_clock' = now
         /\ cancelPc' = cancel_record_get_id(text, first, now, save_ok,
                                             cancel_df, cancel_sheet).state
         /\ cancel_df' = cancel_record_get_id(text, first, now, save_ok,
                                              cancel_df, cancel_sheet).queue
         /\ cancel_sheet' = cancel_record_get_id(text, first, now, save_ok,
                                                 cancel_df, cancel_sheet).sheet
         /\ cancel_reply' = cancel_record_get_id(text, first, now, save_ok,
                                                 cancel_df, cancel_sheet).reply
    /\ UNCHANGED cancel_calls

(***************************************************************************)
(* The visit poll of vlk_bot/handlers_poll.py: handle_poll_response,       *)
(* handle_poll_cancel_actions, handle_poll_date_selection and              *)
(* handle_poll_custom_date over the Active sheet (rows of an ID and a      *)
(* status), the queue sheet, the status file and user_data.                *)
(***************************************************************************)
\* What update_active_sheet_status meets: both requests answer, or one of
\* them fails.
ActiveOutcomes == {"updated", "update fails"}

\* sheets.py:293-297: the first row whose column B is the identifier
RowOfId(values, id) ==
    IF \E i \in 1 .. Len(values) : Strip(values[i].ID) = Strip(id)
    THEN CHOOSE i \in 1 .. Len(values) :
            /\ Strip(values[i].ID) = Strip(id)
            /\ \A j \in 1 .. i - 1 : Strip(values[j].ID) /= Strip(id)
    ELSE 0

\* sheets.py:268-324: the rows of the Active sheet after the call
update_active_sheet_status(id, new_status, values, outcome) ==
    IF Len(values) = 0 THEN values
    ELSE IF RowOfId(values, id) = 0 \/ outcome = "update fails" THEN values
    ELSE [values EXCEPT ![RowOfId(values, id)].status = new_status]

\* handlers_poll.py:68-70, 147-150, 244-247: the confirmation of an
\* identifier the status file knows
SetConfirmation(last_known_state, id, confirmation) ==
    IF id \in DOMAIN last_known_state
    THEN [last_known_state EXCEPT ![id].confirmation = confirmation]
    ELSE last_known_state

\* handlers_poll.py:132-140, 229-237, 396-404
PollEntry(id, date_text, previous) ==
    QueueRow(id, date_text, "Cherez opytuvannia", Approved, 0, previous)

\* What a handler leaves: the Active sheet, the queue sheet, the status
\* file, user_data and what was sent.
PollLeft(active, queue, state, data, sent) ==
    [active |-> active, queue |-> queue, state |-> state, data |-> data,
     sent |-> sent]

NoPollData ==
    [poll_awaiting_custom_date |-> FALSE, poll_reschedule_user_id |-> <<>>,
     poll_warning_shown |-> FALSE, poll_warned_date |-> EmptyText]

\* handlers_poll.py:41-108
handle_poll_response(action, id, outcome, active, queue, state, data) ==
    IF action = "poll_confirm"
    THEN PollLeft(update_active_sheet_status(id, "Pidtverdyv vizyt", active,
                                             outcome),
                  queue, SetConfirmation(state, id, "Pidtverdzheno"), data,
                  "confirmed")
    ELSE IF action = "poll_reschedule"
    THEN PollLeft(active, queue, state, data, "choose a date")
    ELSE IF action = "poll_cancel"
    THEN PollLeft(active, queue, state, data, "are you sure")
    ELSE PollLeft(active, queue, state, data, "")

\* handlers_poll.py:111-187
handle_poll_cancel_actions(action, id, save_ok, outcome, previous, active, queue, state, data) ==
    IF action = "poll_cancel_confirm"
    THEN IF save_ok
         THEN PollLeft(update_active_sheet_status(id, "Skasuvav", active,
                                                  outcome),
                       Append(queue, PollEntry(id, EmptyText, previous)),
                       SetConfirmation(state, id, "Skasovano"), data,
                       "cancelled")
         ELSE PollLeft(active, queue, state, data, "save failed")
    ELSE IF action = "poll_cancel_abort"
    THEN PollLeft(active, queue, state, data, "the poll again")
    ELSE IF action = "poll_cancel_reschedule"
    THEN PollLeft(active, queue, state, data, "choose a date")
    ELSE PollLeft(active, queue, state, data, "")

\* handlers_poll.py:190-257; other is the button of another date
handle_poll_date_selection(other, id, date_str, save_ok, outcome, previous, active, queue, state, data) ==
    IF other
    THEN PollLeft(active, queue, state,
                  [data EXCEPT !.poll_awaiting_custom_date = TRUE,
                               !.poll_reschedule_user_id = id],
                  "enter a date")
    ELSE IF save_ok
    THEN PollLeft(update_active_sheet_status(id, "Vidklav vizyt", active,
                                             outcome),
                  Append(queue, PollEntry(id, date_str, previous)),
                  SetConfirmation(state, id, "Pereneseno"), data,
                  "rescheduled")
    ELSE PollLeft(active, queue, state, data, "save failed")

\* handlers_poll.py:273-295: the match of (\d{1,2})\.(\d{1,2})\.(\d{2,4}),
\* '20' before a year of two digits, and strptime with %Y, which takes
\* four digits
PollParse(input) ==
    IF ~input.match THEN NotADate
    ELSE IF input.ylen = 2 THEN DateOrError(input.d, input.m, 2000 + input.y)
    ELSE IF input.ylen = 4 THEN DateOrError(input.d, input.m, input.y)
    ELSE NotADate

\* handlers_poll.py:386-430: update_active_sheet_status, then the entry
\* and save_queue_data
SaveCustom(chosen, save_ok, outcome, previous, active, queue, state, data) ==
    IF save_ok
    THEN PollLeft(update_active_sheet_status(data.poll_reschedule_user_id,
                                             "Vidklav vizyt", active, outcome),
                  Append(queue, PollEntry(data.poll_reschedule_user_id,
                                          chosen, previous)),
                  state, NoPollData, "rescheduled")
    ELSE PollLeft(update_active_sheet_status(data.poll_reschedule_user_id,
                                             "Vidklav vizyt", active, outcome),
                  queue, state, NoPollData, "save failed")

\* handlers_poll.py:314-384: warn is TRUE when the check of the date
\* against the prediction found a warning to show
WarnOrSaveCustom(chosen, warn, save_ok, outcome, previous, active, queue, state, data) ==
    IF ~(data.poll_warning_shown /\ data.poll_warned_date = chosen) /\ warn
    THEN PollLeft(active, queue, state,
                  [data EXCEPT !.poll_warning_shown = TRUE,
                               !.poll_warned_date = chosen],
                  "warning")
    ELSE SaveCustom(chosen, save_ok, outcome, previous, active, queue, state,
                    data)

\* handlers_poll.py:260-430
handle_poll_custom_date(input, warn, save_ok, outcome, previous, today, active, queue, state, data) ==
    IF ~data.poll_awaiting_custom_date
    THEN PollLeft(active, queue, state, data, "")
    ELSE IF ~input.match
    THEN PollLeft(active, queue, state, data, "bad format")
    ELSE IF PollParse(input) = NotADate
    THEN PollLeft(active, queue, state, data, "no such date")
    ELSE IF OrdinalOf(PollParse(input)) <= today
    THEN PollLeft(active, queue, state, data, "not in the future")
    ELSE IF Weekday(OrdinalOf(PollParse(input))) >= 5
    THEN PollLeft(active, queue, state, data, "weekend")
    ELSE WarnOrSaveCustom(PollParse(input), warn, save_ok, outcome, previous,
                          active, queue, state, data)

(***************************************************************************)
(* SpecPoll: an Active sheet, a status file, and at most MaxPollSteps      *)
(* callbacks and messages of the poll.                                     *)
(***************************************************************************)
MaxPollSteps == 2

\* context.bot_data['next_reception_sheet']
NextReception == DateText(5, 12, 2025)

ActiveRow(id, status) == [ID |-> id, status |-> status]

\* Identifier 1 is on the Active sheet, once or twice; identifier 2 is not.
ActiveSheets ==
    {<<>>,
     <<ActiveRow(<<"1">>, "")>>,
     <<ActiveRow(<<"3">>, ""), ActiveRow(<<"1", " ">>, ""),
       ActiveRow(<<"1">>, "")>>}

PollIds == {<<"1">>, <<"2">>}

StatusEntry == [confirmation |-> ""]

StatusFiles == {<<>>, [i \in {<<"1">>} |-> StatusEntry]}

PollDateInputs ==
    {NoMatch, DateInput(31, 2, 2025, 4), DateInput(4, 12, 2025, 4),
     DateInput(6, 12, 2025, 4), DateInput(8, 12, 25, 2),
     DateInput(8, 12, 202, 3)}

NoHandler == [handler |-> "", saved |-> FALSE, before |-> <<>>]

PollRan(handler, queue_before, active_before) ==
    poll_done' = [handler |-> handler,
                  saved |-> poll_queue' /= queue_before,
                  before |-> active_before]

PollInit ==
    /\ pollPc = "open"
    /\ active_sheet \in ActiveSheets
    /\ poll_queue = <<>>
    /\ status_file \in StatusFiles
    /\ poll_data = NoPollData
    /\ poll_sent = ""
    /\ poll_done = NoHandler
    /\ poll_steps = 0

PollPark ==
    /\ pollPc = "parked" /\ active_sheet = <<>> /\ poll_queue = <<>>
    /\ status_file = <<>> /\ poll_data = NoPollData /\ poll_sent = ""
    /\ poll_done = NoHandler /\ poll_steps = 0

PollLeaves(left) ==
    /\ active_sheet' = left.active
    /\ poll_queue' = left.queue
    /\ status_file' = left.state
    /\ poll_data' = left.data
    /\ poll_sent' = left.sent
    /\ pollPc' = "open"
    /\ poll_steps' = poll_steps + 1

PollResponse ==
    /\ pollPc = "open" /\ poll_steps < MaxPollSteps
    /\ \E action \in {"poll_confirm", "poll_reschedule", "poll_cancel"},
          id \in PollIds, outcome \in ActiveOutcomes :
         PollLeaves(handle_poll_response(action, id, outcome, active_sheet,
                                         poll_queue, status_file, poll_data))
    /\ PollRan("handle_poll_response", poll_queue, active_sheet)

PollCancelActions ==
    /\ pollPc = "open" /\ poll_steps < MaxPollSteps
    /\ \E action \in {"poll_cancel_confirm", "poll_cancel_abort",
                      "poll_cancel_reschedule"},
          id \in PollIds, save_ok \in BOOLEAN, outcome \in ActiveOutcomes :
         PollLeaves(handle_poll_cancel_actions(action, id, save_ok, outcome,
                                               NextReception, active_sheet,
                                               poll_queue, status_file,
                                               poll_data))
    /\ PollRan("handle_poll_cancel_actions", poll_queue, active_sheet)

PollDateSelection ==
    /\ pollPc = "open" /\ poll_steps < MaxPollSteps
    /\ \E other \in BOOLEAN, id \in PollIds, save_ok \in BOOLEAN,
          outcome \in ActiveOutcomes :
         PollLeaves(handle_poll_date_selection(other, id,
                                               DateText(8, 12, 2025), save_ok,
                                               outcome, NextReception,
                                               active_sheet, poll_queue,
                                               status_file, poll_data))
    /\ PollRan("handle_poll_date_selection", poll_queue, active_sheet)

PollCustomDate ==
    /\ pollPc = "open" /\ poll_steps < MaxPollSteps
    /\ \E input \in PollDateInputs, warn \in BOOLEAN, save_ok \in BOOLEAN,
          outcome \in ActiveOutcomes :
         PollLeaves(handle_poll_custom_date(input, warn, save_ok, outcome,
                                            NextReception, JoinToday,
                                            active_sheet, poll_queue,
                                            status_file, poll_data))
    /\ PollRan("handle_poll_custom_date", poll_queue, active_sheet)

(***************************************************************************)
(* check_new_daily_sheet of vlk_bot/scheduler.py, run by the cron job of   *)
(* bot.py:180-188.  A time is a day (its ordinal) and the minute of the    *)
(* day; a sheet is named by the date in its title.  bot_data holds         *)
(* poll_sent_for_date, sheet_detected_at and next_reception_sheet          *)
(* (next_reception_date is the date of the same sheet); 0 and NoTime stand *)
(* for a key that is not set.                                              *)
(***************************************************************************)
TimeOf(day, minute) == [none |-> FALSE, day |-> day, minute |-> minute]

NoTime == [none |-> TRUE, day |-> 0, minute |-> 0]

\* (now - detected_at).total_seconds() / 60
MinutesBetween(now, earlier) ==
    (now.day - earlier.day) * 24 * 60 + (now.minute - earlier.minute)

\* The poll goes out as soon as the sheet is met a second time.
ElapsedEnough_atOnce(now, detected_at) == MinutesBetween(now, detected_at) >= 0

\* scheduler.py:210-212: minutes_elapsed >= 30
ElapsedEnough(now, detected_at) == MinutesBetween(now, detected_at) >= 30

\* utils.py:97-107: the next count working days after today
RECURSIVE WorkingDaysFrom(_, _)
WorkingDaysFrom(current, count) ==
    IF count = 0 THEN <<>>
    ELSE IF Weekday(current) < 5
    THEN <<current>> \o WorkingDaysFrom(current + 1, count - 1)
    ELSE WorkingDaysFrom(current + 1, count)

get_next_working_days(count, today) == WorkingDaysFrom(today + 1, count)

\* scheduler.py:183-190: the first of the working days with a sheet, 0 for
\* None
FoundSheet(next_working_days, existing_sheets) ==
    IF \E i \in 1 .. Len(next_working_days) :
          next_working_days[i] \in existing_sheets
    THEN next_working_days[
            CHOOSE i \in 1 .. Len(next_working_days) :
               /\ next_working_days[i] \in existing_sheets
               /\ \A j \in 1 .. i - 1 :
                     next_working_days[j] \notin existing_sheets]
    ELSE 0

EmptyBotData ==
    [poll_sent_for_date |-> 0, sheet_detected_at |-> NoTime,
     next_reception_sheet |-> 0]

\* What a run leaves: bot_data, and whether send_visit_poll was called.
RunLeft(data, sent) == [bot_data |-> data, sent |-> sent]

\* scheduler.py:199-215
Detected(found_sheet, now, data) ==
    IF data.next_reception_sheet /= found_sheet
    THEN RunLeft([data EXCEPT !.sheet_detected_at = now,
                              !.next_reception_sheet = found_sheet], FALSE)
    ELSE IF ~data.sheet_detected_at.none
            /\ ElapsedEnough(now, data.sheet_detected_at)
    THEN RunLeft([data EXCEPT !.poll_sent_for_date = now.day], TRUE)
    ELSE RunLeft(data, FALSE)

\* scheduler.py:164-215; existing_sheets is what get_sheets_list returns,
\* the empty list when the request failed
check_new_daily_sheet(existing_sheets, now, data) ==
    IF data.poll_sent_for_date /= 0 /\ data.poll_sent_for_date = now.day
    THEN RunLeft(data, FALSE)
    ELSE IF existing_sheets = {} THEN RunLeft(data, FALSE)
    ELSE IF FoundSheet(get_next_working_days(3, now.day), existing_sheets) = 0
    THEN RunLeft([data EXCEPT !.sheet_detected_at = NoTime,
                              !.next_reception_sheet = 0], FALSE)
    ELSE Detected(FoundSheet(get_next_working_days(3, now.day),
                             existing_sheets), now, data)

(***************************************************************************)
(* SpecSched: the job runs every RunEvery minutes from FirstHour o'clock,  *)
(* MaxRuns times a day (the cron of bot.py runs it until 17:55), on        *)
(* MaxSchedDays days from Thursday 4.12.2025; each run meets any list of   *)
(* sheets.                                                                 *)
(***************************************************************************)
MaxRuns      == 8
MaxSchedDays == 3

\* bot.py:183-184: hour='8-17', minute='*/5'
FirstHour == 8
RunEvery  == 5

FirstRun(day) == TimeOf(day, FirstHour * 60)

\* the run after the run at now
NextRun(now) ==
    IF now.minute + RunEvery < FirstHour * 60 + MaxRuns * RunEvery
    THEN TimeOf(now.day, now.minute + RunEvery)
    ELSE FirstRun(now.day + 1)

\* a title that is no date of the next working days
OtherSheet == JoinToday - 1

\* The lists of sheets a run can meet: the sheet of Friday 5.12.2025 and
\* the sheet of Monday 8.12.2025 are there or not, and the request can
\* fail.
SheetLists ==
    {{}} \cup {{OtherSheet} \cup some : some \in SUBSET {JoinToday + 1,
                                                        JoinToday + 4}}

\* the sheet a run detected, 0 when it found none, -1 when it did not look
NotLooked == 0 - 1

LookedFor(existing_sheets, now, data) ==
    IF data.poll_sent_for_date = now.day \/ existing_sheets = {}
    THEN NotLooked
    ELSE FoundSheet(get_next_working_days(3, now.day), existing_sheets)

\* The sheet the runs that looked have detected without a break, and the
\* time of the first of them.
Watched(looked, now, watch) ==
    IF looked = NotLooked THEN watch
    ELSE IF looked = 0 THEN [sheet |-> 0, since |-> NoTime]
    ELSE IF looked = watch.sheet THEN watch
    ELSE [sheet |-> looked, since |-> now]

SchedInit ==
    /\ schedPc = "running"
    /\ sched_now = FirstRun(JoinToday)
    /\ bot_data = EmptyBotData
    /\ sched_watch = [sheet |-> 0, since |-> NoTime]
    /\ sched_polls = <<>>
    /\ sched_last = [ran |-> FALSE, at |-> NoTime, looked |-> NotLooked,
                     sent |-> FALSE, watch |-> [sheet |-> 0, since |-> NoTime]]

SchedPark ==
    /\ schedPc = "parked" /\ sched_now = NoTime /\ bot_data = EmptyBotData
    /\ sched_watch = [sheet |-> 0, since |-> NoTime] /\ sched_polls = <<>>
    /\ sched_last = [ran |-> FALSE, at |-> NoTime, looked |-> NotLooked,
                     sent |-> FALSE, watch |-> [sheet |-> 0, since |-> NoTime]]

\* One run of the job, and the clock moves to the next run.
CheckNewDailySheet ==
    /\ schedPc = "running"
    /\ sched_now.day < JoinToday + MaxSchedDays
    /\ \E existing_sheets \in SheetLists :
         /\ bot_data' = check_new_daily_sheet(existing_sheets, sched_now,
                                              bot_data).bot_data
         /\ sched_watch' = Watched(LookedFor(existing_sheets, sched_now,
                                             bot_data), sched_now, sched_watch)
         /\ sched_last' =
               [ran |-> TRUE, at |-> sched_now,
                looked |-> LookedFor(existing_sheets, sched_now, bot_data),
                sent |-> check_new_daily_sheet(existing_sheets, sched_now,
                                               bot_data).sent,
                watch |-> sched_watch]
         /\ sched_polls' =
               IF check_new_daily_sheet(existing_sheets, sched_now,
                                        bot_data).sent
               THEN Append(sched_polls,
                           [sheet |-> bot_data.next_reception_sheet,
                            at |-> sched_now])
               ELSE sched_polls
    /\ sched_now' = NextRun(sched_now)
    /\ UNCHANGED schedPc

(***************************************************************************)
(* notify_status of vlk_bot/scheduler.py over the queue sheet and the      *)
(* status file.  The status file holds for an identifier it knows the      *)
(* date, the status and 'Змінено' of the record it last saw, and the       *)
(* confirmation of the poll.                                               *)
(***************************************************************************)
\* scheduler.py:45: pd.Timestamp("2000-01-01 00:00:00"), before every time
\* of a record
Time2000 == 0

\* scheduler.py:43-45: Змінено_dt
Changed_2000(row) == IF row.changed = 0 THEN Time2000 ELSE row.changed

\* scheduler.py:50: groupby('ID')['Змінено_dt'].idxmax(), the first of the
\* rows of the identifier with the greatest Змінено_dt
LatestEntry(queue, id) ==
    queue[CHOOSE i \in RowsOfId(queue, id) :
             \A j \in RowsOfId(queue, id) :
                \/ Changed_2000(queue[j]) < Changed_2000(queue[i])
                \/ Changed_2000(queue[j]) = Changed_2000(queue[i]) /\ i <= j]

Unknown ==
    [known |-> FALSE, date |-> EmptyText, status |-> "", modified |-> 0,
     confirmation |-> ""]

\* Every record is taken for a change.
StateChanged_always(info, row) == info.known \/ ~info.known

\* scheduler.py:76-79
StateChanged(info, row) ==
    \/ ~info.known
    \/ /\ info.status /= row.status
       /\ info.date = row.date
       /\ info.modified = row.changed
    \/ info.date /= row.date \/ info.modified /= row.changed

\* scheduler.py:82-95: what is sent about the record
Notification(row) ==
    [id |-> row.ID, status |-> row.status, date |-> row.date,
     rmc |-> IF row.date = EmptyText THEN "cancellation"
             ELSE IF row.previous /= EmptyText THEN "transfer"
             ELSE "creation"]

\* scheduler.py:66-73 and 98-103
NewState(info, row) ==
    [known |-> TRUE, date |-> row.date, status |-> row.status,
     modified |-> row.changed,
     confirmation |-> IF info.known THEN info.confirmation ELSE ""]

IdsOf(queue) == {queue[i].ID : i \in 1 .. Len(queue)}

\* What a run leaves: the status file and the notifications sent.
NotifyLeft(state, sent) == [state |-> state, sent |-> sent]

\* scheduler.py:29-107; loaded is FALSE when load_queue_data gives None
notify_status(loaded, queue, last_known_state) ==
    IF ~loaded \/ Len(queue) = 0 THEN NotifyLeft(last_known_state, {})
    ELSE NotifyLeft(
           [id \in DOMAIN last_known_state |->
               IF id \in IdsOf(queue)
               THEN NewState(last_known_state[id], LatestEntry(queue, id))
               ELSE Unknown],
           {Notification(LatestEntry(queue, id)) :
               id \in {x \in IdsOf(queue) :
                          /\ StateChanged(last_known_state[x],
                                          LatestEntry(queue, x))
                          /\ LatestEntry(queue, x).status /= Pending}})

(***************************************************************************)
(* SpecNotify: a queue of at most MaxNotifyRows records, at most           *)
(* MaxNotifyRuns runs of notify_status, and between them records are       *)
(* appended, an administrator decides a pending record, and the poll       *)
(* confirms a visit.                                                       *)
(***************************************************************************)
MaxNotifyRows == 2
MaxNotifyRuns == 2

NotifyIds == {<<"1">>, <<"2">>}

NotifyRecords ==
    {QueueRow(<<"1">>, CancelDate, "", Pending, 1, EmptyText),
     QueueRow(<<"1">>, CancelDate, "", Approved, 1, EmptyText),
     QueueRow(<<"1">>, CancelDate, "", Rejected, 1, EmptyText),
     QueueRow(<<"1">>, EmptyText, "", Approved, 2, CancelDate),
     QueueRow(<<"1">>, CancelDate, "", Approved, 2, CancelDate),
     QueueRow(<<"1">>, CancelDate, "", Approved, 0, EmptyText),
     QueueRow(<<"2">>, CancelDate, "", Pending, 1, EmptyText)}

NotifyQueues == UNION {[1 .. n -> NotifyRecords] : n \in 0 .. MaxNotifyRows}

NotNotified ==
    [ran |-> FALSE, looked |-> FALSE, again |-> FALSE, queue |-> <<>>,
     before |-> [id \in NotifyIds |-> Unknown]]

NotifyInit ==
    /\ notifyPc = "scheduled"
    /\ notify_queue \in NotifyQueues
    /\ notify_state = [id \in NotifyIds |-> Unknown]
    /\ notify_sent = {}
    /\ notify_fresh = FALSE
    /\ notify_runs = 0
    /\ notify_last = NotNotified

NotifyPark ==
    /\ notifyPc = "parked" /\ notify_queue = <<>>
    /\ notify_state = [id \in NotifyIds |-> Unknown] /\ notify_sent = {}
    /\ notify_fresh = FALSE /\ notify_runs = 0 /\ notify_last = NotNotified

\* One run of the job.
NotifyStatus ==
    /\ notifyPc = "scheduled"
    /\ notify_runs < MaxNotifyRuns
    /\ \E loaded \in BOOLEAN :
         /\ notify_state' = notify_status(loaded, notify_queue,
                                          notify_state).state
         /\ notify_sent' = notify_status(loaded, notify_queue,
                                         notify_state).sent
         /\ notify_fresh' = IF loaded /\ Len(notify_queue) > 0 THEN TRUE
                            ELSE notify_fresh
         /\ notify_last' = [ran |-> TRUE,
                            looked |-> loaded /\ Len(notify_queue) > 0,
                            again |-> notify_fresh, queue |-> notify_queue,
                            before |-> notify_state]
    /\ notify_runs' = notify_runs + 1
    /\ UNCHANGED <<notifyPc, notify_queue>>

\* A handler appends a record to the queue sheet.
RecordAppended ==
    /\ notifyPc = "scheduled"
    /\ Len(notify_queue) < MaxNotifyRows
    /\ \E record \in NotifyRecords :
          notify_queue' = Append(notify_queue, record)
    /\ notify_fresh' = FALSE
    /\ notify_last' = [notify_last EXCEPT !.ran = FALSE]
    /\ UNCHANGED <<notifyPc, notify_state, notify_sent, notify_runs>>

\* An administrator sets the status of a pending record in the sheet.
AdminDecides ==
    /\ notifyPc = "scheduled"
    /\ \E i \in 1 .. Len(notify_queue), decision \in {Approved, Rejected} :
          /\ notify_queue[i].status = Pending
          /\ notify_queue' = [notify_queue EXCEPT ![i].status = decision]
    /\ notify_fresh' = FALSE
    /\ notify_last' = [notify_last EXCEPT !.ran = FALSE]
    /\ UNCHANGED <<notifyPc, notify_state, notify_sent, notify_runs>>

\* handlers_poll.py:68-70: the poll sets the confirmation of an identifier
\* the status file knows
PollConfirms ==
    /\ notifyPc = "scheduled"
    /\ \E id \in NotifyIds :
          /\ notify_state[id].known
          /\ notify_state[id].confirmation = ""
          /\ notify_state' =
                [notify_state EXCEPT ![id].confirmation = "Pidtverdzheno"]
    /\ notify_last' = [notify_last EXCEPT !.ran = FALSE]
    /\ UNCHANGED <<notifyPc, notify_queue, notify_sent, notify_fresh,
                   notify_runs>>

InitPred ==
    PredInit /\ SheetPark /\ IdPark /\ OrdPark /\ EligPark /\ DlPark /\ SyncPark /\ ConcPark /\ ProbPark /\ JoinPark /\ AdminPark /\ CleanupPark /\ PathsPark /\ CancelPark /\ PollPark /\ SchedPark /\ NotifyPark
NextPred ==
    (GenerateJson \/ Predict \/ CalculatePrediction) /\ UNCHANGED <<sheetVars, idVars, ordVars, eligVars, dlVars, syncVars, concVars, probVars, joinVars, adminVars, cleanupVars, pathsVars, cancelVars, pollVars, schedVars, notifyVars>>
SpecPred == InitPred /\ [][NextPred]_vars

InitSheet ==
    SheetInit /\ PredPark /\ IdPark /\ OrdPark /\ EligPark /\ DlPark /\ SyncPark /\ ConcPark /\ ProbPark /\ JoinPark /\ AdminPark /\ CleanupPark /\ PathsPark /\ CancelPark /\ PollPark /\ SchedPark /\ NotifyPark
NextSheet ==
    (Extract \/ Parse) /\ UNCHANGED <<predVars, idVars, ordVars, eligVars, dlVars, syncVars, concVars, probVars, joinVars, adminVars, cleanupVars, pathsVars, cancelVars, pollVars, schedVars, notifyVars>>
SpecSheet == InitSheet /\ [][NextSheet]_vars

InitGrid ==
    GridInit /\ PredPark /\ IdPark /\ OrdPark /\ EligPark /\ DlPark /\ SyncPark /\ ConcPark /\ ProbPark /\ JoinPark /\ AdminPark /\ CleanupPark /\ PathsPark /\ CancelPark /\ PollPark /\ SchedPark /\ NotifyPark
SpecGrid == InitGrid /\ [][NextSheet]_vars

InitId ==
    IdInit /\ PredPark /\ SheetPark /\ OrdPark /\ EligPark /\ DlPark /\ SyncPark /\ ConcPark /\ ProbPark /\ JoinPark /\ AdminPark /\ CleanupPark /\ PathsPark /\ CancelPark /\ PollPark /\ SchedPark /\ NotifyPark
NextId ==
    Normalize /\ UNCHANGED <<predVars, sheetVars, ordVars, eligVars, dlVars, syncVars, concVars, probVars, joinVars, adminVars, cleanupVars, pathsVars, cancelVars, pollVars, schedVars, notifyVars>>
SpecId == InitId /\ [][NextId]_vars

InitOrd ==
    OrdInit /\ PredPark /\ SheetPark /\ IdPark /\ EligPark /\ DlPark /\ SyncPark /\ ConcPark /\ ProbPark /\ JoinPark /\ AdminPark /\ CleanupPark /\ PathsPark /\ CancelPark /\ PollPark /\ SchedPark /\ NotifyPark
NextOrd ==
    Convert /\ UNCHANGED <<predVars, sheetVars, idVars, eligVars, dlVars, syncVars, concVars, probVars, joinVars, adminVars, cleanupVars, pathsVars, cancelVars, pollVars, schedVars, notifyVars>>
SpecOrd == InitOrd /\ [][NextOrd]_vars

InitElig ==
    EligInit /\ PredPark /\ SheetPark /\ IdPark /\ OrdPark /\ DlPark /\ SyncPark /\ ConcPark /\ ProbPark /\ JoinPark /\ AdminPark /\ CleanupPark /\ PathsPark /\ CancelPark /\ PollPark /\ SchedPark /\ NotifyPark
NextElig ==
    (CheckJoin \/ CheckBot) /\ UNCHANGED <<predVars, sheetVars, idVars, ordVars, dlVars, syncVars, concVars, probVars, joinVars, adminVars, cleanupVars, pathsVars, cancelVars, pollVars, schedVars, notifyVars>>
SpecElig == InitElig /\ [][NextElig]_vars

InitDl ==
    DlInit /\ PredPark /\ SheetPark /\ IdPark /\ OrdPark /\ EligPark /\ SyncPark /\ ConcPark /\ ProbPark /\ JoinPark /\ AdminPark /\ CleanupPark /\ PathsPark /\ CancelPark /\ PollPark /\ SchedPark /\ NotifyPark
NextDl ==
    (DlBegin \/ DlAttempt) /\ UNCHANGED <<predVars, sheetVars, idVars, ordVars, eligVars, syncVars, concVars, probVars, joinVars, adminVars, cleanupVars, pathsVars, cancelVars, pollVars, schedVars, notifyVars>>
\* The call runs on until it returns.
SpecDl == InitDl /\ [][NextDl]_vars /\ WF_vars(NextDl)

InitSync ==
    SyncInit /\ PredPark /\ SheetPark /\ IdPark /\ OrdPark /\ EligPark /\ DlPark /\ ConcPark /\ ProbPark /\ JoinPark /\ AdminPark /\ CleanupPark /\ PathsPark /\ CancelPark /\ PollPark /\ SchedPark /\ NotifyPark
NextSync ==
    (SyncCall \/ SyncDownload \/ SyncFinish \/ Interrupt \/ Tick) /\ UNCHANGED <<predVars, sheetVars, idVars, ordVars, eligVars, dlVars, concVars, probVars, joinVars, adminVars, cleanupVars, pathsVars, cancelVars, pollVars, schedVars, notifyVars>>
SpecSync == InitSync /\ [][NextSync]_vars

InitConc ==
    ConcInit /\ PredPark /\ SheetPark /\ IdPark /\ OrdPark /\ EligPark /\ DlPark /\ SyncPark /\ ProbPark /\ JoinPark /\ AdminPark /\ CleanupPark /\ PathsPark /\ CancelPark /\ PollPark /\ SchedPark /\ NotifyPark
NextConc ==
    Handle /\ UNCHANGED <<predVars, sheetVars, idVars, ordVars, eligVars, dlVars, syncVars, probVars, joinVars, adminVars, cleanupVars, pathsVars, cancelVars, pollVars, schedVars, notifyVars>>
SpecConc == InitConc /\ [][NextConc]_vars

InitProb ==
    ProbInit /\ PredPark /\ SheetPark /\ IdPark /\ OrdPark /\ EligPark /\ DlPark /\ SyncPark /\ ConcPark /\ JoinPark /\ AdminPark /\ CleanupPark /\ PathsPark /\ CancelPark /\ PollPark /\ SchedPark /\ NotifyPark
NextProb ==
    Probability /\ UNCHANGED <<predVars, sheetVars, idVars, ordVars, eligVars, dlVars, syncVars, concVars, joinVars, adminVars, cleanupVars, pathsVars, cancelVars, pollVars, schedVars, notifyVars>>
SpecProb == InitProb /\ [][NextProb]_vars

InitJoin ==
    JoinInit /\ PredPark /\ SheetPark /\ IdPark /\ OrdPark /\ EligPark /\ DlPark /\ SyncPark /\ ConcPark /\ ProbPark /\ AdminPark /\ CleanupPark /\ PathsPark /\ CancelPark /\ PollPark /\ SchedPark /\ NotifyPark
NextJoin ==
    (JoinStart \/ JoinGetId \/ JoinGetDate) /\ UNCHANGED <<predVars, sheetVars, idVars, ordVars, eligVars, dlVars, syncVars, concVars, probVars, adminVars, cleanupVars, pathsVars, cancelVars, pollVars, schedVars, notifyVars>>
SpecJoin == InitJoin /\ [][NextJoin]_vars

InitAdmin ==
    AdminInit /\ PredPark /\ SheetPark /\ IdPark /\ OrdPark /\ EligPark /\ DlPark /\ SyncPark /\ ConcPark /\ ProbPark /\ JoinPark /\ CleanupPark /\ PathsPark /\ CancelPark /\ PollPark /\ SchedPark /\ NotifyPark
NextAdmin ==
    (GrantAdmin \/ DropAdmin \/ Ban \/ Unban) /\ UNCHANGED <<predVars, sheetVars, idVars, ordVars, eligVars, dlVars, syncVars, concVars, probVars, joinVars, cleanupVars, pathsVars, cancelVars, pollVars, schedVars, notifyVars>>
SpecAdmin == InitAdmin /\ [][NextAdmin]_vars

InitCleanup ==
    CleanupInit /\ PredPark /\ SheetPark /\ IdPark /\ OrdPark /\ EligPark /\ DlPark /\ SyncPark /\ ConcPark /\ ProbPark /\ JoinPark /\ AdminPark /\ PathsPark /\ CancelPark /\ PollPark /\ SchedPark /\ NotifyPark
NextCleanup ==
    Cleanup /\ UNCHANGED <<predVars, sheetVars, idVars, ordVars, eligVars, dlVars, syncVars, concVars, probVars, joinVars, adminVars, pathsVars, cancelVars, pollVars, schedVars, notifyVars>>
SpecCleanup == InitCleanup /\ [][NextCleanup]_vars

InitPaths ==
    PathsInit /\ PredPark /\ SheetPark /\ IdPark /\ OrdPark /\ EligPark /\ DlPark /\ SyncPark /\ ConcPark /\ ProbPark /\ JoinPark /\ AdminPark /\ CleanupPark /\ CancelPark /\ PollPark /\ SchedPark /\ NotifyPark
NextPaths ==
    (PersistCorpus \/ ViaJson \/ ViaCsv) /\ UNCHANGED <<predVars, sheetVars, idVars, ordVars, eligVars, dlVars, syncVars, concVars, probVars, joinVars, adminVars, cleanupVars, cancelVars, pollVars, schedVars, notifyVars>>
SpecPaths == InitPaths /\ [][NextPaths]_vars

InitCancel ==
    CancelInit /\ PredPark /\ SheetPark /\ IdPark /\ OrdPark /\ EligPark /\ DlPark /\ SyncPark /\ ConcPark /\ ProbPark /\ JoinPark /\ AdminPark /\ CleanupPark /\ PathsPark /\ PollPark /\ SchedPark /\ NotifyPark
NextCancel ==
    (CancelStart \/ CancelGetId) /\ UNCHANGED <<predVars, sheetVars, idVars, ordVars, eligVars, dlVars, syncVars, concVars, probVars, joinVars, adminVars, cleanupVars, pathsVars, pollVars, schedVars, notifyVars>>
SpecCancel == InitCancel /\ [][NextCancel]_vars

InitPoll ==
    PollInit /\ PredPark /\ SheetPark /\ IdPark /\ OrdPark /\ EligPark /\ DlPark /\ SyncPark /\ ConcPark /\ ProbPark /\ JoinPark /\ AdminPark /\ CleanupPark /\ PathsPark /\ CancelPark /\ SchedPark /\ NotifyPark
NextPoll ==
    (PollResponse \/ PollCancelActions \/ PollDateSelection \/ PollCustomDate) /\ UNCHANGED <<predVars, sheetVars, idVars, ordVars, eligVars, dlVars, syncVars, concVars, probVars, joinVars, adminVars, cleanupVars, pathsVars, cancelVars, schedVars, notifyVars>>
SpecPoll == InitPoll /\ [][NextPoll]_vars

InitSched ==
    SchedInit /\ PredPark /\ SheetPark /\ IdPark /\ OrdPark /\ EligPark /\ DlPark /\ SyncPark /\ ConcPark /\ ProbPark /\ JoinPark /\ AdminPark /\ CleanupPark /\ PathsPark /\ CancelPark /\ PollPark /\ NotifyPark
NextSched ==
    CheckNewDailySheet /\ UNCHANGED <<predVars, sheetVars, idVars, ordVars, eligVars, dlVars, syncVars, concVars, probVars, joinVars, adminVars, cleanupVars, pathsVars, cancelVars, pollVars, notifyVars>>
SpecSched == InitSched /\ [][NextSched]_vars

InitNotify ==
    NotifyInit /\ PredPark /\ SheetPark /\ IdPark /\ OrdPark /\ EligPark /\ DlPark /\ SyncPark /\ ConcPark /\ ProbPark /\ JoinPark /\ AdminPark /\ CleanupPark /\ PathsPark /\ CancelPark /\ PollPark /\ SchedPark
NextNotify ==
    (NotifyStatus \/ RecordAppended \/ AdminDecides \/ PollConfirms) /\ UNCHANGED <<predVars, sheetVars, idVars, ordVars, eligVars, dlVars, syncVars, concVars, probVars, joinVars, adminVars, cleanupVars, pathsVars, cancelVars, pollVars, schedVars>>
SpecNotify == InitNotify /\ [][NextNotify]_vars

(***************************************************************************)
(* Claims about the prediction engine (checked under SpecPred).            *)
(***************************************************************************)
\* The points the call of Predict ran the regression on: those of the
\* attendance JSON when the file exists, those of the cached sheets
\* otherwise.
CorpusPoints ==
    IF attendance_json.exists
    THEN ProcessLoop(attendance_json.data.attendance_points, 1)
    ELSE HistPoints(get_historical_attendance_data(cache).rows, 1)

CorpusIds == GroupIds(CorpusPoints)

\* The dates of those points.
CorpusDates ==
    IF attendance_json.exists
    THEN LET points == attendance_json.data.attendance_points
         IN  {points[i].date : i \in {j \in 1 .. Len(points) :
                                  id_to_numeric(points[j].id).kind /= "none"}}
    ELSE LET hist_df == get_historical_attendance_data(cache).rows
         IN  {hist_df[i].date : i \in 1 .. Len(hist_df)}

MaxCorpusOrdinal ==
    MaxSeq([i \in 1 .. Len(CorpusPoints) |-> CorpusPoints[i].ordinal])

\* C1: whenever the corpus holds fewer than 5 distinct numeric
\* identifiers, the call returns None: it neither returns a Prediction
\* nor raises.
C1_InsufficientDataIsNone ==
    (predPc = "predicted" /\ Cardinality(CorpusIds) < 5)
        => prediction = NoPrediction

\* C1 witness: a call on 5 points or more that collapse to 4 identifiers
\* has returned None.
C1_Witness ==
    /\ predPc = "predicted"
    /\ Len(CorpusPoints) >= 5
    /\ Cardinality(CorpusIds) = 4
    /\ prediction = NoPrediction

\* C2: in every returned Prediction for an identifier greater than every
\* identifier of the corpus, the ordinals of l90 and of l50 are at least
\* the greatest ordinal of a corpus point plus one, and neither date is
\* the date of a corpus point or before one.
C2_FutureFloor ==
    (/\ predPc = "predicted"
     /\ prediction.kind = "Prediction"
     /\ \A x \in CorpusIds : user_id > x)
        => /\ get_ordinal_date(prediction.l90) >= MaxCorpusOrdinal + 1
           /\ get_ordinal_date(prediction.l50) >= MaxCorpusOrdinal + 1
           /\ \A d \in CorpusDates :
                 prediction.l90 > d /\ prediction.l50 > d

\* C2 witness: a Prediction for an identifier beyond the corpus whose l90,
\* below the floor by the regression, is the day after the last ordinal.
C2_Witness ==
    /\ predPc = "predicted"
    /\ prediction.kind = "Prediction"
    /\ \A x \in CorpusIds : user_id > x
    /\ LET margin90 == FMul(Lookup(tScore90Table, prediction.dist.df, 1),
                            prediction.dist.scale)
       IN  /\ margin90.m /= 0
           /\ OrdPlus(prediction.dist.loc, -1, margin90, 0).whole
                  < MaxCorpusOrdinal + 1
    /\ get_ordinal_date(prediction.l90) = MaxCorpusOrdinal + 1

(***************************************************************************)
(* Claims about the calendar ordinal mapper (checked under SpecOrd).       *)
(***************************************************************************)
\* C3: for every business day d (Monday to Friday) of the window,
\* get_date_from_ordinal(get_ordinal_date(d)) = d.
C3_RoundTrip ==
    (ordPc = "done" /\ Weekday(date) < 5) => back = date

\* A Friday late in the window has been converted there and back.
C3_Witness ==
    /\ ordPc = "done" /\ Weekday(date) = 4
    /\ date > Anchor + 1800 /\ back = date

\* C4 as the spec states it: the ordinal of a Saturday and of a Sunday is
\* the ordinal of the Friday before them.
C4_WeekendIsFriday ==
    (ordPc = "done" /\ Weekday(date) = 4 /\ gap \in {1, 2}) => ord2 = ord

\* C4 amended: the ordinal of a Saturday and of a Sunday is the ordinal of
\* the Monday that follows them, one more than that of the Friday before.
C4_WeekendIsNextMonday ==
    /\ (ordPc = "done" /\ Weekday(date) = 4 /\ gap \in {1, 2}) => ord2 = ord + 1
    /\ (ordPc = "done" /\ Weekday(date) = 5 /\ gap \in {1, 2}) => ord2 = ord

\* A Saturday and the Monday after it have been converted.
C4_Witness ==
    /\ ordPc = "done" /\ Weekday(date) = 5 /\ gap = 2
    /\ Weekday(date + gap) = 0 /\ ord2 = ord

\* C5: the anchor Monday 1970-01-05 has ordinal 0, a Friday has the ordinal
\* of its Monday plus 4, and a Saturday has the ordinal of the Monday that
\* follows it: 1970-01-10 and 1970-01-12 both have ordinal 5.
C5_AnchorAndWeek ==
    /\ (ordPc = "done" /\ date = Toordinal(1970, 1, 5)) => ord = 0
    /\ (ordPc = "done" /\ date = Toordinal(1970, 1, 9)) => ord = 4
    /\ (ordPc = "done" /\ Weekday(date) = 0 /\ gap = 4) => ord2 = ord + 4
    /\ (ordPc = "done" /\ Weekday(date) = 5 /\ gap = 2) => ord2 = ord
    /\ (ordPc = "done" /\ date = Toordinal(1970, 1, 10) /\ gap = 2)
          => (ord = 5 /\ ord2 = 5 /\ date + gap = Toordinal(1970, 1, 12))

\* The test's Saturday and Monday have been converted.
C5_Witness ==
    /\ ordPc = "done" /\ date = Toordinal(1970, 1, 10) /\ gap = 2
    /\ ord = 5 /\ ord2 = 5

\* C6: get_ordinal_date never decreases when the date grows, grows by one
\* between two consecutive business days of a week, and grows by exactly 5
\* over 7 calendar days, also before the anchor.
C6_Monotone ==
    /\ ordPc = "done" => ord <= ord2
    /\ (ordPc = "done" /\ Weekday(date) < 4 /\ gap = 1) => ord2 = ord + 1
    /\ (ordPc = "done" /\ gap = 7) => ord2 = ord + 5

\* A Sunday before the anchor and the date a week later have been converted.
C6_Witness ==
    /\ ordPc = "done" /\ date < Anchor - 7 /\ Weekday(date) = 6 /\ gap = 7
    /\ ord < 0 /\ ord2 = ord + 5

(***************************************************************************)
(* Claims about the identifier normaliser (checked under SpecId).          *)
(***************************************************************************)
\* The identifier matches ^\d+(/\d+)?$.
IsIdForm(s) ==
    LET parts == Split(s, "/")
    IN  Len(parts) \in {1, 2} /\ \A i \in 1 .. Len(parts) : IsDigitStr(parts[i])

\* C7: id_to_numeric maps "N" to the number N and "N/k" to N + k/100, so
\* "4355" gives 4355.0 and "4355/1" gives 4355.01; "abc" and the empty
\* string give None.
C7_Normalization ==
    /\ (idPc = "done" /\ IsDigitStr(id_val))
          => (numeric.kind = "num" /\ NumEq(numeric, Num(DecVal(id_val), 1)))
    /\ (idPc = "done" /\ IsIdForm(id_val) /\ ~IsDigitStr(id_val))
          => LET parts == Split(id_val, "/")
             IN  /\ numeric.kind = "num"
                 /\ NumEq(numeric,
                          Num(DecVal(parts[1]) * 100 + DecVal(parts[2]), 100))
    /\ (idPc = "done" /\ id_val = <<"4", "3", "5", "5">>)
          => (numeric.kind = "num" /\ NumEq(numeric, Num(4355, 1)))
    /\ (idPc = "done" /\ id_val = <<"4", "3", "5", "5", "/", "1">>)
          => (numeric.kind = "num" /\ NumEq(numeric, Num(435501, 100)))
    /\ (idPc = "done" /\ id_val \in {<<"a", "b", "c">>, <<>>})
          => numeric = NoValue

\* "4355/1" has been normalised to 4355.01.
C7_Witness ==
    /\ idPc = "done" /\ id_val = <<"4", "3", "5", "5", "/", "1">>
    /\ numeric.kind = "num" /\ numeric.num = 435501 /\ numeric.den = 100

\* C8: for every identifier matching ^\d+(/\d+)?$, whatever its suffix, the
\* whole part of id_to_numeric's result is the identifier's integer prefix.
C8_WholePartIsPrefix ==
    (idPc = "done" /\ IsIdForm(id_val))
        => (numeric.kind = "num"
            /\ WholePart(numeric) = DecVal(LeadingDigits(id_val)))

\* C9: for every string that does not begin with a digit once trimmed,
\* id_to_numeric returns None.
C9_NoLeadingDigitIsNone ==
    (idPc = "done" /\ Len(LeadingDigits(Strip(id_val))) = 0)
        => numeric = NoValue

(***************************************************************************)
(* Claims about the status classification (checked under SpecSheet).       *)
(***************************************************************************)
\* The status cell of the sheet's data row.
ProbeStatus == rows[Len(rows)][3]

\* The status holds, in any case of its letters, the 'did not enter' or
\* the 'no-show' marker.
HasNegation(status) ==
    \/ Contains(Lower(status), NotEnteredMarker)
    \/ Contains(Lower(status), NoShowMarker)

\* C10: the status classification is case-insensitive and the negations
\* win: a row whose status holds a 'did not enter' or a 'no-show' marker,
\* whatever else it holds, gives no attendance point in
\* extract_attended_ids_from_sheet, and parse_daily_sheet_attendance
\* (which reads a sheet of 4 rows or more) counts it as a no-show and not
\* as attended.
C10_NegationWins ==
    /\ (sheetPc = "extracted" /\ HasNegation(ProbeStatus))
          => attended_ids = <<>>
    /\ (sheetPc = "parsed" /\ HasNegation(ProbeStatus) /\ Len(rows) >= 4)
          => (/\ ~stats.none
              /\ stats.counts.attended = 0
              /\ stats.counts.no_show = 1)

\* The sheet whose status reads 'Did not enter (no-show)', which holds the
\* 'entered' marker too, has been parsed and counted as a no-show.
C10_Witness ==
    /\ sheetPc = "parsed"
    /\ ProbeStatus
         = <<"Ne", " ", "zaishov", " ", "(", "ne", " ", "z'yavyvsya", ")">>
    /\ Contains(Lower(ProbeStatus), EnteredMarker)
    /\ ~stats.none /\ stats.counts.no_show = 1 /\ stats.counts.attended = 0

(***************************************************************************)
(* Claims about the rows extract_attended_ids_from_sheet keeps (checked     *)
(* under SpecGrid).                                                        *)
(***************************************************************************)
\* The rows whose first cell is the header marker.
HeaderRows(rs) ==
    {i \in 1 .. Len(rs) : Len(rs[i]) > 0 /\ Strip(rs[i][1]) = HeaderMarker}

\* The first of them, 0 without one.
FirstHeader(rs) ==
    IF HeaderRows(rs) = {} THEN 0
    ELSE CHOOSE i \in HeaderRows(rs) : \A j \in HeaderRows(rs) : i <= j

\* The row has a status cell and the status is 'entered'.
RowEntered(row) == Len(row) >= 3 /\ IsEntered(Lower(Strip(row[3])))

\* The row is after the first header row, with a numeric position, an
\* identifier that is not blank and an entered status.
ClaimKeeps(rs, i) ==
    /\ FirstHeader(rs) /= 0 /\ i > FirstHeader(rs)
    /\ RowEntered(rs[i])
    /\ IsDigitStr(Strip(rs[i][1]))
    /\ Len(Strip(rs[i][2])) > 0

\* The same in a grid of 4 rows or more, for an identifier with a digit.
GridKeeps(rs, i) ==
    /\ Len(rs) >= 4
    /\ ClaimKeeps(rs, i)
    /\ HasDigit(Strip(rs[i][2]))

\* The k-th index of a set of indices.
NthOf(K, k) == CHOOSE i \in K : Cardinality({j \in K : j < i}) = k - 1

\* The attendance points of the rows of K, in the order of the rows.
PointsOfRows(rs, K) ==
    [k \in 1 .. Cardinality(K) |->
        [id |-> Strip(rs[NthOf(K, k)][2]),
         is_live |-> Contains(Lower(Strip(rs[NthOf(K, k)][3])),
                              LiveQueueMarker)]]

\* C11 as stated: extract_attended_ids_from_sheet keeps a row exactly when
\* it lies after the first row whose first cell is the header marker, has
\* a purely numeric position, an identifier that is not blank and an
\* entered status, wherever the header row is in the grid.
C11_KeepsNonBlankIds ==
    (sheetPc = "extracted")
        => attended_ids
             = PointsOfRows(rows, {i \in 1 .. Len(rows) : ClaimKeeps(rows, i)})

\* C11 as amended: a grid of fewer than 4 rows gives nothing; of a grid of
\* 4 rows or more extract_attended_ids_from_sheet keeps a row exactly when
\* it lies after the first row whose first cell is the header marker, has
\* a purely numeric position, an identifier that holds a digit and an
\* entered status, wherever the header row is in the grid; every other row
\* is skipped.
C11_KeepsIdsWithDigit ==
    (sheetPc = "extracted")
        => attended_ids
             = PointsOfRows(rows, {i \in 1 .. Len(rows) : GridKeeps(rows, i)})

\* A grid whose header is the second row: the row before the header and
\* the row of a position that is no number are skipped, the row after
\* them is kept.
C11_Witness ==
    /\ sheetPc = "extracted"
    /\ rows = Grid(<<"ok", "header", "nonnum", "padded">>)
    /\ FirstHeader(rows) = 2
    /\ attended_ids = <<[id |-> <<"9", "/", "1">>, is_live |-> TRUE]>>

(***************************************************************************)
(* Claims about the eligibility checker (checked under SpecElig).          *)
(***************************************************************************)
\* Either check_id_for_queue has run on a summary table with a number in
\* its column and on an identifier that is a number.
Checked ==
    /\ eligPc \in {"handlers_join", "BOT"}
    /\ ~stats_table.none
    /\ DropNa(stats_table.last) /= {}
    /\ ~queue_id.none

\* The last-served figure of the summary table: the greatest number of the
\* column.
LastServed == MaxOf(DropNa(stats_table.last))

\* The earlier booking is accepted and dated after the current business
\* day (the Friday before, on a weekend).
QualifyingBooking ==
    /\ prev_booking.kind = "date"
    /\ prev_status = "Ukhvaleno"
    /\ prev_booking.date > ActWorkingDay(current_day)

\* The rows of the summary table with a figure whose suffix-maximum of the
\* figures exceeds the identifier.
RowsBehind ==
    {i \in 1 .. Len(stats_table.last) :
        /\ ~stats_table.last[i].nan
        /\ \E j \in i .. Len(stats_table.last) :
              ~stats_table.last[j].nan /\ stats_table.last[j].v > queue_id.v}

\* C12: check_id_for_queue returns (eligible, empty warning) for every
\* identifier that is greater than or equal to the last-served figure of
\* the summary table, also when it is equal to it.
C12_AtOrAboveLastServed ==
    (Checked /\ queue_id.v >= LastServed)
        => eligibility = Returned(TRUE, "", 0)

\* C13: for an identifier below the last-served figure,
\* check_id_for_queue returns (eligible, empty warning) exactly when the
\* identifier has an earlier accepted booking dated strictly after the
\* current business day.
C13_BookedAheadOnly ==
    (Checked /\ queue_id.v < LastServed)
        => (eligibility = Returned(TRUE, "", 0) <=> QualifyingBooking)

\* C14: for an identifier below the last-served figure without such a
\* booking, check_id_for_queue counts the rows whose suffix-maximum
\* exceeds the identifier: a count of 1 or less gives eligible with the
\* 'last attempt' warning, a greater count gives ineligible with a message
\* that holds the count.
C14_MissedDays ==
    (Checked /\ queue_id.v < LastServed /\ ~QualifyingBooking)
        => eligibility
             = IF Cardinality(RowsBehind) <= 1
               THEN Returned(TRUE, "last attempt", 0)
               ELSE Returned(FALSE, "missed days", Cardinality(RowsBehind))

(***************************************************************************)
(* Claims about download_daily_sheet (checked under SpecDl).               *)
(***************************************************************************)
\* What is retried: a rate limit, or a network error as the code catches
\* it (ConnectionError, BrokenPipeError, OSError).
Retried(outcome) == outcome \in {"http 429", "network", "oserror"}

\* The last thing an attempt met.
LastOutcome == dl.outcomes[Len(dl.outcomes)]

\* At most 3 attempts; every attempt but the last one met a rate limit or
\* a network error; before the k-th retry the wait was
\* retry_delay * 2^(k - 1), and there is no wait after the last attempt.
AttemptsAndWaits ==
    /\ Len(dl.outcomes) <= 3
    /\ \A k \in 1 .. Len(dl.outcomes) - 1 : Retried(dl.outcomes[k])
    /\ dl.pc = "attempt" => Len(dl.waits) = Len(dl.outcomes)
    /\ (dl.pc = "returned" /\ dl.is_date)
           => Len(dl.waits) = Len(dl.outcomes) - 1
    /\ \A k \in 1 .. Len(dl.waits) : dl.waits[k] = dl.retry_delay * 2 ^ (k - 1)

\* The result is True after rows were written, and False otherwise; an
\* error that is not retried ends the attempts at once.
ResultOfLast ==
    (dl.pc = "returned" /\ dl.is_date)
        => /\ dl.result = (IF LastOutcome = "values" THEN "True" ELSE "False")
           /\ dl.written = (LastOutcome = "values")
           /\ Retried(LastOutcome) => Len(dl.outcomes) = 3

\* Every attempt logged one message.
EveryAttemptLogged == Len(dl.log) = Len(dl.outcomes)

\* C19 as stated: download_daily_sheet makes at most 3 attempts, retries
\* only after a rate limit (429) or a network error, waits
\* retry_delay * 2^attempt before the next attempt and not after the last
\* one, and any other remote error is logged and ends the attempts at once
\* with the result False.
C19_EveryErrorLogged ==
    (dl.pc = "returned" /\ dl.is_date)
        => AttemptsAndWaits /\ ResultOfLast /\ EveryAttemptLogged

\* C19 as amended: download_daily_sheet always returns, after at most 3
\* attempts; it retries only after a rate limit (429) or a network error,
\* waits retry_delay * 2^attempt before the next attempt and not after the
\* last one; any other remote error ends the attempts at once with the
\* result False, and is logged unless it is an HTTP error of status 400.
C19_BoundedRetries ==
    /\ [](/\ AttemptsAndWaits
          /\ ResultOfLast
          /\ (dl.pc = "returned" /\ dl.is_date /\ LastOutcome /= "http 400")
                => EveryAttemptLogged
          /\ (dl.pc = "returned" /\ dl.is_date /\ LastOutcome = "http 400")
                => Len(dl.log) = Len(dl.outcomes) - 1)
    /\ <>(dl.pc = "returned")

\* Three attempts, two waits of retry_delay and twice retry_delay, and the
\* result False after the third rate limit.
C19_Witness ==
    /\ dl.pc = "returned"
    /\ dl.outcomes = <<"http 429", "network", "http 429">>
    /\ dl.waits = <<dl.retry_delay, 2 * dl.retry_delay>>
    /\ dl.result = "False"

(***************************************************************************)
(* Claims about sync_daily_sheets (checked under SpecSync).                *)
(***************************************************************************)
\* The call has returned.
SyncReturned == syncPc = "idle" /\ run.result \in {"True", "False"}

\* The sheets the summary table lists with an entered count.
ListedSheets ==
    {summary[i].sheet : i \in {j \in 1 .. Len(summary) :
        summary[j].is_date /\ summary[j].entered \notin {"", "nan"}}}

\* The sheets the call tried to download.
Attempted == {run.attempted[i] : i \in 1 .. Len(run.attempted)}

\* The sheet had no file in the cache when the call began.
MissingAtCall(date_obj) == at_call.snapshots[IdOfDate(date_obj)] = "absent"

\* The date is one of the 5 business days up to today.
InLastBusinessDays(date_obj) ==
    get_ordinal_date(SyncToday) - get_ordinal_date(date_obj) < 5

\* The date is today - 5 calendar days, or after it.
InLastCalendarDays(date_obj) == date_obj >= SyncToday - 5

\* C15 as stated: every non-forced run of sync_daily_sheets (one that
\* has the summary table, to know what is listed) fetches every listed
\* sheet dated within the most recent 5 business days and every listed
\* sheet with no cache file, and leaves a listed sheet alone only if it is
\* cached and older than the most recent 5 business days.
C15_LastBusinessDays ==
    (SyncReturned /\ ~ run.force_refresh_all_sheets /\ run.result = "True")
        => Attempted = {d \in ListedSheets :
                           InLastBusinessDays(d) \/ MissingAtCall(d)}

\* C15 as amended: every non-forced run of sync_daily_sheets that is not
\* skipped over a fresh attendance JSON and that has the summary table
\* tries to fetch every listed sheet dated today - 5 calendar days or
\* later and every listed sheet with no cache file, and leaves a listed
\* sheet alone only if it is cached and dated before today - 5 days.
C15_LastCalendarDays ==
    (SyncReturned /\ ~ run.force_refresh_all_sheets
        /\ ~ run.skipped /\ run.result = "True")
        => Attempted = {d \in ListedSheets :
                           InLastCalendarDays(d) \/ MissingAtCall(d)}

\* A non-forced run over a cache that holds every sheet: the sheet of
\* today - 5 is fetched again, the sheet of today - 6 is not.
C15_Witness ==
    /\ SyncReturned /\ ~ run.force_refresh_all_sheets
    /\ ~ run.skipped /\ run.result = "True"
    /\ \A k \in SheetIds : at_call.snapshots[k] /= "absent"
    /\ run.attempted = <<SyncToday - 5>>
    /\ SyncToday - 6 \in ListedSheets

\* C16: a call of sync_daily_sheets with force_refresh_all_sheets set is
\* never skipped over a fresh attendance JSON and, having the summary
\* table, tries to download every sheet the table lists with an entered
\* count, whatever the cache and the attendance JSON hold; it returns False
\* only when the summary table had to be downloaded and was not obtained.
C16_ForceAllAttemptsEveryListed ==
    (SyncReturned /\ run.force_refresh_all_sheets)
        => /\ ~ run.skipped
           /\ run.result = "True"
                 => /\ Attempted = ListedSheets
                    /\ Len(run.attempted) = Cardinality(ListedSheets)
           /\ run.result = "False"
                 => ShouldRefresh(run.force_refresh_stats, at_call.stats_mtime)

\* A forced call over a fresh attendance JSON and a cache that holds every
\* sheet: the three listed sheets are tried.
C16_Witness ==
    /\ SyncReturned /\ run.force_refresh_all_sheets
    /\ at_call.corpus.exists /\ at_call.corpus_fresh
    /\ \A k \in SheetIds : at_call.snapshots[k] /= "absent"
    /\ Len(run.attempted) = 3
    /\ Attempted = ListedSheets

\* What the cached sheets give: the data of the attendance JSON that
\* generate_attendance_json derives from the cache directory.
DataOfCache ==
    JsonFile(JsonLoop(CacheFilesFrom(snapshots, 1), SheetToDateOf(summary), 1)).data

C18_FailuresDoNotAbort ==
    /\ syncPc = "loop"
          => /\ run.i <= Len(run.sheets_to_update) + 1
             /\ run.attempted = SubSeq(run.sheets_to_update, 1, run.i - 1)
    /\ (SyncReturned /\ run.result = "True" /\ ~ run.skipped)
          => run.attempted = run.sheets_to_update
    /\ (SyncReturned /\ run.failed /= {}) => run.result = "True"

\* The first of three downloads failed, the two after it were tried, one
\* of them succeeded, and the run returned True.
C18_Witness ==
    /\ SyncReturned /\ run.result = "True"
    /\ Len(run.sheets_to_update) = 3
    /\ run.sheets_to_update[1] \in run.failed
    /\ run.sheets_to_update[3] \notin run.failed
    /\ run.attempted = run.sheets_to_update

\* A call of sync_daily_sheets without a force flag begins (a call that
\* repeats a skipped call over the same disk shows as no step).
PlainCallBegins ==
    /\ syncPc = "idle"
    /\ at_call' = Disk
    /\ ~ run'.force_refresh_stats /\ ~ run'.force_refresh_all_sheets
    /\ run'.result /= "never"
    /\ (run' /= run \/ at_call' /= at_call)

\* A run returns that downloaded no sheet and no summary table.
ReturnsWithNothingNew ==
    /\ syncPc = "loop" /\ syncPc' = "idle" /\ run'.result = "True"
    /\ ~ run.sheets_updated /\ ~ run.should_refresh

\* C34: a call of sync_daily_sheets without a force flag, made while the
\* attendance JSON exists and is younger than the 30 minutes, makes no
\* request (no summary table, no sheet), changes no file of the cache and
\* returns True; and a run that downloaded nothing new leaves the
\* attendance JSON as it is and makes it young again, so that the 30
\* minutes start anew.
C34_FreshCorpusSkipsAndRestarts ==
    [][/\ (PlainCallBegins /\ corpus.exists /\ corpus_fresh)
            => /\ run'.skipped /\ run'.result = "True"
               /\ run'.attempted = <<>> /\ run'.sheets_to_update = <<>>
               /\ syncPc' = "idle"
               /\ UNCHANGED <<snapshots, stats_mtime, summary, corpus,
                              corpus_fresh>>
       /\ (ReturnsWithNothingNew /\ corpus.exists)
            => /\ corpus_fresh'
               /\ corpus' = corpus
               /\ SkipsSync(FALSE, FALSE, corpus'.exists, corpus_fresh')]_vars

\* A run over an attendance JSON that was there and old returned with
\* nothing downloaded: the JSON is young, and the call after it, without
\* a force flag, was skipped.
C34_Witness ==
    /\ syncPc = "idle"
    /\ run.skipped /\ run.result = "True"
    /\ ~ run.force_refresh_stats /\ ~ run.force_refresh_all_sheets
    /\ at_call.corpus.exists /\ at_call.corpus_fresh
    /\ prior.kind = "returned"
    /\ prior.disk.corpus.exists /\ ~ prior.disk.corpus_fresh
    /\ prior.disk.corpus = corpus
    /\ prior.tried = 0

\* The sheets of sheets_to_update downloaded into the cache.
SnapshotsAfter(files, sheets_to_update) ==
    [k \in SheetIds |->
        IF \E i \in 1 .. Len(sheets_to_update) : sheets_to_update[i] = SheetDates[k]
        THEN "current" ELSE files[k]]

\* The attendance JSON after a run that downloaded sheets_to_update.
CorpusAfter(disk, force_refresh_stats, sheets_to_update) ==
    IF Regenerates(Len(sheets_to_update) > 0,
                   ShouldRefresh(force_refresh_stats, disk.stats_mtime))
    THEN Regenerated(SnapshotsAfter(disk.snapshots, sheets_to_update), summary,
                     disk.corpus)
    ELSE disk.corpus

\* The cache and the attendance JSON after one whole run of
\* sync_daily_sheets from the disk, every download of it succeeding.
OneRun(disk, force_refresh_stats, force_refresh_all_sheets, sheets_to_update) ==
    IF SkipsSync(force_refresh_stats, force_refresh_all_sheets,
                 disk.corpus.exists, disk.corpus_fresh)
    THEN [snapshots |-> disk.snapshots, corpus |-> disk.corpus]
    ELSE [snapshots |-> SnapshotsAfter(disk.snapshots, sheets_to_update),
          corpus |-> CorpusAfter(disk, force_refresh_stats, sheets_to_update)]

\* One whole run from the disk of the call before this one, with the
\* flags of this call.
OnceFromPrior ==
    OneRun(prior.disk, run.force_refresh_stats, run.force_refresh_all_sheets,
           SheetsToUpdate(SheetsToDownload(summary, 1), prior.disk.snapshots,
                          run.force_refresh_all_sheets))

\* The call before this one was interrupted in its loop after it had
\* downloaded a sheet or more.
InterruptedAfterDownloads == prior.kind = "interrupted" /\ prior.tried >= 1

\* C20: a second call of sync_daily_sheets with the same flags, at once
\* after a first call that returned or was interrupted after it had
\* downloaded part of the sheets, the remote unchanged and every download
\* succeeding, leaves the cache and the attendance JSON as one whole run
\* from the disk of the first call leaves them.
C20_Idempotent ==
    (SyncReturned /\ run.result = "True" /\ run.failed = {}
        /\ (prior.kind = "returned" \/ InterruptedAfterDownloads))
        => /\ snapshots = OnceFromPrior.snapshots
           /\ corpus = OnceFromPrior.corpus

\* The same holds of the code when the first call returned, or was
\* interrupted with a sheet or more of its list left to try.
IdempotentWithSheetsLeft ==
    (SyncReturned /\ run.result = "True" /\ run.failed = {}
        /\ (prior.kind = "returned"
               \/ (InterruptedAfterDownloads /\ prior.left >= 1)))
        => /\ snapshots = OnceFromPrior.snapshots
           /\ corpus = OnceFromPrior.corpus

(***************************************************************************)
(* Claims about the handlers on the event loop (checked under SpecConc).   *)
(***************************************************************************)
\* The handler has loaded the corpus and its prediction has not returned.
PredictionInFlight(h) == position[h] = "compute"

\* C21: while a prediction that has loaded the corpus has not returned,
\* nothing writes attendance_data.json or the cache of daily sheets (the
\* call of calculate_prediction itself included), and the file a prediction
\* loads is never one whose writing is under way.
C21_NoWriteDuringPrediction ==
    /\ [](\A h \in Handlers :
             loaded_copy[h].kind = "data" => ~ loaded_copy[h].partial)
    /\ [][(\E h \in Handlers : PredictionInFlight(h))
             => /\ json_on_disk' = json_on_disk
                /\ cache_writes' = cache_writes]_vars

\* A prediction in flight on a corpus written by a refresh, while the other
\* handler is suspended in its await.
C21_Witness ==
    /\ PredictionInFlight("status")
    /\ loaded_copy["status"].kind = "data"
    /\ loaded_copy["status"].writes >= 1
    /\ position["join_get_id"] = "get_stats_data"

(***************************************************************************)
(* Claims about calculate_date_probability (checked under SpecProb).       *)
(***************************************************************************)
\* The computation fails: a parameter is missing or is no finite number,
\* or the distribution is degenerate.
ProbabilityFails ==
    \/ prob_date.kind /= "date"
    \/ prob_dist.kind /= "dict"
    \/ prob_dist.loc.kind /= "float"
    \/ prob_dist.scale.kind /= "float"
    \/ prob_dist.df.kind /= "float"
    \/ prob_dist.scale.value.m = 0
    \/ prob_dist.df.value <= 0

\* C22: calculate_date_probability returns 0 whenever the computation
\* fails (parameters missing, not finite or degenerate), and for every
\* input it returns a finite number between 0 and 100.
C22_ZeroOnFailure ==
    probPc = "done"
        => /\ probability.kind = "float"
           /\ 0 <= probability.lo /\ probability.hi <= 100
           /\ ProbabilityFails => probability = Percent(0, 0)

(***************************************************************************)
(* Claims about calculate_prediction (checked under SpecPred).             *)
(***************************************************************************)
PredictionFields == {"mean", "l50", "h50", "l90", "h90", "dist"}

\* A prediction whose five dates are dates and whose dist holds the three
\* parameters of the distribution.
Populated(p) ==
    /\ PredictionFields \subseteq DOMAIN p
    /\ \A k \in PredictionFields \ {"dist"} : DateInRange(p[k])
    /\ DOMAIN p.dist = {"loc", "scale", "df"}

\* What calculate_prediction_with_daily_data gives on the state that
\* calculate_prediction has left.
InnerOutcomes ==
    calculate_prediction_with_daily_data(user_id, attendance_json, cache)

\* C23: calculate_prediction never raises: it returns None or a Prediction
\* populated with mean, l50, h50, l90, h90 and dist.
C23_NoneOrPopulated ==
    predPc = "returned"
        => \/ prediction = NoPrediction
           \/ prediction.kind = "Prediction" /\ Populated(prediction)

\* calculate_prediction has returned None on a corpus on which the
\* computation inside it can raise.
C23_Witness ==
    /\ predPc = "returned"
    /\ prediction = NoPrediction
    /\ Raised \in InnerOutcomes

\* The attendance data without the points of the live queue.
IsScheduled(point) == ~point.is_live

WithoutLive(attendance_data) ==
    JsonFile(SelectSeq(attendance_data.attendance_points, IsScheduled)).data

\* The forecast of an outcome: the five dates and the distribution.
Forecast(outcome) ==
    IF outcome.kind = "Prediction"
    THEN [kind |-> "Prediction", l90 |-> outcome.l90, l50 |-> outcome.l50,
          mean |-> outcome.mean, h50 |-> outcome.h50, h90 |-> outcome.h90,
          dist |-> outcome.dist]
    ELSE outcome

\* C25: with liveQueueWeight 0 the prediction from attendance_data.json is
\* the prediction from the same data with every live-queue point removed:
\* the weights of the remaining points, the guard of five points and the
\* future floor take no account of the live queue.
C25_LiveQueueExcluded ==
    (predPc = "predicted" /\ attendance_json.exists /\ liveQueueWeight = 0)
        => Forecast(prediction)
             \in {Forecast(o) :
                    o \in calculate_prediction_from_attendance_json(
                              user_id, WithoutLive(attendance_json.data))}

ProbabilityOfBound(p, bound) ==
    calculate_date_probability(DateOf(p[bound]), DistOf(p.dist))

\* A probability that is percent, but for the rounding of the floats.
Approximately(p, percent) ==
    p.kind = "float" /\ p.lo = percent /\ p.hi = percent

AtLeast(p, percent) == p.kind = "float" /\ p.lo >= percent

ScaleResolved(p) == MarginMilli(p.dist.scale) >= 1

PlainList(options, today) ==
    /\ Len(options) = days_ahead
    /\ options[1].date = SkipWeekend(today + 1)
    /\ \A i \in 1 .. Len(options) :
         /\ Weekday(options[i].date) < 5
         /\ options[i].percent = NoPercent
    /\ \A i \in 1 .. Len(options) - 1 :
         options[i + 1].date = SkipWeekend(options[i].date + 1)

\* join_get_id takes the identifier: the text is of the pattern and the
\* identifier may register.
Accepted(text, check, admin) ==
    /\ IdPattern(Strip(text))
    /\ (admin \/ check.can_register)

\* C24: when join_get_id accepts the identifier and there is no
\* prediction, the dialogue still goes on to JOIN_GETTING_DATE and offers
\* exactly days_ahead upcoming business days from tomorrow on, without
\* probabilities.
C24_PlainListWithoutPrediction ==
    /\ joinState = "JOIN_GETTING_ID"
         => \A text \in JoinIds, check \in CheckOutcomes, admin \in BOOLEAN,
               today \in JoinToday .. JoinToday + 6 :
              Accepted(text, check, admin)
                => /\ join_get_id(text, check, admin, NoPrediction, user_data,
                                  queue_df, queue_sheet, today).state
                        = "JOIN_GETTING_DATE"
                   /\ PlainList(join_get_id(text, check, admin, NoPrediction,
                                            user_data, queue_df, queue_sheet,
                                            today).buttons, today)
    /\ (/\ joinState = "JOIN_GETTING_DATE"
        /\ date_inputs = <<>>
        /\ user_data.prediction_bounds = NoPrediction)
         => PlainList(buttons, JoinToday)

\* join_get_id has taken the identifier 9/1 without a prediction and has
\* offered the fifteen days from Friday 5.12.2025 to Thursday 25.12.2025.
C24_Witness ==
    /\ joinState = "JOIN_GETTING_DATE"
    /\ date_inputs = <<>>
    /\ user_data.temp_id = <<"9", "/", "1">>
    /\ user_data.prediction_bounds = NoPrediction
    /\ Len(buttons) = 15
    /\ buttons[1].date = Toordinal(2025, 12, 5)
    /\ buttons[15].date = Toordinal(2025, 12, 25)

\* join_get_date has run on an input.
GotDate == joinState = "JOIN_GETTING_DATE" /\ date_inputs' /= date_inputs

LastInput == date_inputs'[Len(date_inputs')].input

\* The text holds a date that is after today, is of Monday to Friday and
\* is not the date of the previous booking.
BookableDate(input, previous_state, today) ==
    /\ ParseDateInput(input).kind = "text"
    /\ OrdinalOf(ParseDateInput(input)) > today
    /\ Weekday(OrdinalOf(ParseDateInput(input))) \in 0 .. 4
    /\ ~ (/\ ParsePrevious(previous_state).kind = "text"
          /\ ParsePrevious(previous_state) = ParseDateInput(input))

NothingSaved == UNCHANGED <<queue_df, queue_sheet>>

\* One row has been added to the sheet and the same row is the last row
\* of the queue in memory; its status is that of a request under review.
SavedRow ==
    /\ Len(queue_sheet') = Len(queue_sheet) + 1
    /\ SubSeq(queue_sheet', 1, Len(queue_sheet)) = queue_sheet
    /\ Len(queue_df') = Len(queue_df) + 1
    /\ SubSeq(queue_df', 1, Len(queue_df)) = queue_df
    /\ queue_df'[Len(queue_df')] = queue_sheet'[Len(queue_sheet')]
    /\ queue_df'[Len(queue_df')].status = Pending
    /\ queue_df'[Len(queue_df')].ID = user_data.temp_id
    /\ queue_df'[Len(queue_df')].date = ParseDateInput(LastInput)

\* C27: join_get_date appends a record only when the text parses as a
\* date strictly after today, of Monday to Friday, that differs from the
\* date of the previous booking; otherwise it stays in JOIN_GETTING_DATE
\* and saves nothing.  The record saved has the status of a request under
\* review, and after the save the dialogue has ended, user_data is
\* cleared and the record is the last row of the queue in memory.
C27_SavesOnlyBookableDates ==
    [][GotDate
         => /\ ~NothingSaved
                 => BookableDate(LastInput, user_data.previous_state, JoinToday)
            /\ ~BookableDate(LastInput, user_data.previous_state, JoinToday)
                 => joinState' = "JOIN_GETTING_DATE" /\ NothingSaved
            /\ ~NothingSaved
                 => /\ SavedRow
                    /\ joinState' = "END"
                    /\ user_data' = ClearedData]_vars

\* A booking moved: the identifier 9 had an approved booking for 12.12.2025,
\* and join_get_date has saved the request for Monday 15.12.2025 after a
\* rejected input.
C27_Witness ==
    /\ joinState = "END"
    /\ reply = "saved"
    /\ Len(date_inputs) = 2
    /\ date_inputs[1].reply = "same as previous"
    /\ user_data = ClearedData
    /\ Len(queue_df) = 2
    /\ queue_df[2].status = Pending
    /\ queue_df[2].date = DateText(15, 12, 2025)
    /\ queue_df[2].previous = DateText(12, 12, 2025)
    /\ queue_sheet = queue_df

\* The replies of join_get_date to a text it does not take for a date to
\* book, the replies that warn, and the replies at the end.
Rejections == {"bad format", "not later than today", "weekend",
               "same as previous"}

Warnings == {"low probability", "too far"}

Endings == {"saved", "save failed"}

\* The inputs k and j hold the same date.
SameDate(j, k) ==
    ParseDateInput(date_inputs[j].input) = ParseDateInput(date_inputs[k].input)

\* The k-th input is a date to book that calls for a warning.
WarrantedDate(k) ==
    date_inputs[k].reply \notin Rejections /\ date_inputs[k].warranted

\* The inputs before the k-th that were dates to book.
BookableBefore(k) ==
    {j \in 1 .. k - 1 : date_inputs[j].reply \notin Rejections}

\* The k-th input repeats the date of the last date to book before it,
\* which was warned about.
RepeatsWarned(k) ==
    /\ BookableBefore(k) /= {}
    /\ SameDate(MaxOf(BookableBefore(k)), k)
    /\ date_inputs[MaxOf(BookableBefore(k))].reply \in Warnings

\* C30: with a prediction, a valid date that calls for a warning is not
\* saved the first time it is entered; it is saved without a further
\* warning only when the identical date is entered again as the next
\* input; a different date that calls for a warning gets a new warning.
C30_ConfirmedByNextInput ==
    \A k \in 1 .. Len(date_inputs) :
        WarrantedDate(k)
          => IF k > 1 /\ SameDate(k - 1, k)
                      /\ date_inputs[k - 1].reply \in Warnings
             THEN date_inputs[k].reply \in Endings
             ELSE date_inputs[k].reply \in Warnings

\* C30 as amended: with a prediction, a valid date that calls for a
\* warning is not saved the first time it is entered; it is saved without
\* a further warning only when the identical date is entered again with
\* no other valid date entered in between (inputs that are rejected as
\* malformed, not later than today, a weekend or the date of the previous
\* booking do not count); a different date that calls for a warning gets
\* a new warning.
C30_ConfirmedByRepeating ==
    \A k \in 1 .. Len(date_inputs) :
        WarrantedDate(k)
          => IF RepeatsWarned(k)
             THEN date_inputs[k].reply \in Endings
             ELSE date_inputs[k].reply \in Warnings

\* A warning about Friday 5.12.2025, then a text that is no date, then
\* the same Friday in another spelling, which is saved.
C30_Witness ==
    /\ Len(date_inputs) = 3
    /\ date_inputs[1].input = DateInput(5, 12, 2025, 4)
    /\ date_inputs[1].reply = "low probability"
    /\ date_inputs[2].reply = "bad format"
    /\ date_inputs[3].input = DateInput(5, 12, 25, 2)
    /\ date_inputs[3].reply = "saved"
    /\ date_inputs[3].warranted
    /\ queue_df[Len(queue_df)].date = DateText(5, 12, 2025)

(***************************************************************************)
(* Claims about the admin commands (checked under SpecAdmin).              *)
(***************************************************************************)
\* A command has run; its sender was an admin when it was sent.
CommandRan == command'.number = command.number + 1

SentByAdmin == command'.user \in ItemsOf(ADMIN_IDS)

ListsUnchanged == UNCHANGED <<ADMIN_IDS, BANLIST>>

\* C28: the admin list and the ban list are changed only by commands that
\* an admin sends; a command of anybody else leaves both lists and the
\* saved configuration as they were, and grant_admin sent by an admin with
\* the identifier of a user adds that identifier to the admin list.
C28_OnlyAdminsChangeLists ==
    [][CommandRan
         => /\ ~ListsUnchanged => SentByAdmin
            /\ ~SentByAdmin => ListsUnchanged /\ UNCHANGED <<config, config_ini>>
            /\ (/\ SentByAdmin
                /\ command'.name = "grant_admin"
                /\ Len(command'.args) > 0
                /\ IntParse(command'.args[1]) /= ValueError)
                 => IntParse(command'.args[1]).num \in ItemsOf(ADMIN_IDS')]_vars

\* The admin 1 has made 2 an admin and config.ini holds it; an admin has
\* banned the user 2; then 3, who is no admin, has sent a command.
C28_Witness ==
    /\ command.number = 3
    /\ command.user = 3
    /\ command.name = "grant_admin"
    /\ ADMIN_IDS = <<1, 2>>
    /\ config_ini.ADMIN_IDS = <<1, 2>>
    /\ 2 \in ItemsOf(BANLIST)

\* No identifier is twice in the list.
DuplicateFree(list) ==
    \A i, j \in 1 .. Len(list) : list[i] = list[j] => i = j

AdminListSound == Len(ADMIN_IDS) > 0 /\ DuplicateFree(ADMIN_IDS)

\* The identifier a command names, 0 when it names none.
Named(cmd) ==
    IF Len(cmd.args) = 0 THEN 0
    ELSE IF IntParse(cmd.args[1]) = ValueError THEN 0
    ELSE IntParse(cmd.args[1]).num

\* A drop_admin that names its sender or somebody who is no admin, or a
\* grant_admin that names an admin.
IsNoOp ==
    \/ /\ command'.name = "drop_admin"
       /\ \/ Named(command') = command'.user
          \/ Named(command') \notin ItemsOf(ADMIN_IDS)
    \/ /\ command'.name = "grant_admin"
       /\ Named(command') \in ItemsOf(ADMIN_IDS)

\* C40: the admin list starts non-empty and without duplicates and stays
\* so after every sequence of grant_admin and drop_admin commands; a
\* drop_admin of the sender or of somebody who is no admin, and a
\* grant_admin of an admin, leave the list and the configuration as they
\* were.
C40_AdminListStaysSound ==
    /\ []AdminListSound
    /\ [][(CommandRan /\ IsNoOp)
            => UNCHANGED <<ADMIN_IDS, config, config_ini>>]_vars

\* Admin 1 made 2 an admin, 2 removed 1, and then 2 tried to remove
\* themself: 2 is the one admin left.
C40_Witness ==
    /\ command.number = 3
    /\ command.name = "drop_admin"
    /\ command.user = 2
    /\ Named(command) = 2
    /\ ADMIN_IDS = <<2>>

(***************************************************************************)
(* C29.  A run of perform_queue_cleanup that returns a number that is not  *)
(* -1 is a successful one.  The records that remain are the records of the *)
(* sheet after the run.                                                    *)
(***************************************************************************)
CleanupSucceeded ==
    /\ cleanupPc = "done"
    /\ cleaned.kind = "returned"
    /\ cleaned.returned >= 0

\* The text of the date parses as %d.%m.%Y and the day is before `day`.
BookedBefore(record, day) ==
    /\ ParsePrevious(record.booked).kind = "text"
    /\ OrdinalOf(ParsePrevious(record.booked)) < day

\* The record was changed at a time, and no record of its identifier was
\* changed later.
MostRecent(df, i) ==
    /\ df[i].changed /= 0
    /\ \A j \in 1 .. Len(df) :
          df[j].ID = df[i].ID => df[j].changed <= df[i].changed

Retained(record) ==
    \E j \in 1 .. Len(google_sheet) : google_sheet[j] = record

\* C29: after a successful perform_queue_cleanup no remaining record has a
\* date that parses and is earlier than today; the record of each
\* identifier that was changed last is retained when its date is today or
\* later or is empty; and the number returned is the number of the records
\* loaded minus the number of the records that remain.
C29_CleanupKeepsLatest ==
    CleanupSucceeded =>
        /\ \A j \in 1 .. Len(google_sheet) :
              ~ BookedBefore(google_sheet[j], CleanupToday)
        /\ \A i \in 1 .. Len(before_cleanup) :
              (/\ MostRecent(before_cleanup, i)
               /\ ~ BookedBefore(before_cleanup[i], CleanupToday))
                 => Retained(before_cleanup[i])
        /\ cleaned.returned = Len(before_cleanup) - Len(google_sheet)

\* A queue of two records of one identifier was cleaned: the record of
\* yesterday is gone, the one changed last, for today, remains, and 1 is
\* returned.
C29_Witness ==
    /\ CleanupSucceeded
    /\ Len(before_cleanup) = 2
    /\ before_cleanup[1].ID = before_cleanup[2].ID
    /\ BookedBefore(before_cleanup[1], CleanupToday)
    /\ MostRecent(before_cleanup, 2)
    /\ before_cleanup[2].booked = DateText(4, 12, 2025)
    /\ google_sheet = <<before_cleanup[2]>>
    /\ cleaned.returned = 1

\* A Prediction has been returned.
HasPrediction == predPc /= "start" /\ prediction.kind = "Prediction"

\* C35 as stated: the five dates of every returned Prediction are in the
\* order l90 <= l50 <= mean <= h50 <= h90, also when the future floor has
\* raised the lower bounds.
C35_FiveDatesOrdered ==
    HasPrediction
        => /\ prediction.l90 <= prediction.l50
           /\ prediction.l50 <= prediction.mean
           /\ prediction.mean <= prediction.h50
           /\ prediction.h50 <= prediction.h90

\* C35 as amended: in every returned Prediction l90 <= l50 and
\* mean <= h50 <= h90; and l50 <= mean, the whole order, when the
\* identifier is not above every identifier of the corpus, the case in
\* which the future floor raises l90 and l50 and not the mean.
C35_OrderedButForTheFloor ==
    HasPrediction
        => /\ prediction.l90 <= prediction.l50
           /\ prediction.mean <= prediction.h50
           /\ prediction.h50 <= prediction.h90
           /\ (\E x \in CorpusIds : user_id <= x)
                 => prediction.l50 <= prediction.mean

\* A Prediction for an identifier above the corpus whose l90 and l50 the
\* floor has put after the mean, with h50 after the mean too.
C35_Witness ==
    /\ HasPrediction
    /\ \A x \in CorpusIds : user_id > x
    /\ prediction.l90 = prediction.l50
    /\ prediction.mean < prediction.l50
    /\ prediction.mean < prediction.h50

(***************************************************************************)
(* Claims about the two data sources of the prediction (SpecPaths).        *)
(***************************************************************************)
\* The forecasts of a set of outcomes.
Forecasts(outcomes) == {Forecast(o) : o \in outcomes}

\* The source every Prediction of the outcomes names.
SourceIs(outcomes, data_source) ==
    \A o \in outcomes : o.kind = "Prediction" => o.data_source = data_source

\* C36: over the same cached sheets the call that loads the attendance
\* JSON and the call that finds none to load return the same outcome, the
\* same dates and distribution or no prediction both; and the cached
\* sheets are the source exactly when no attendance JSON can be loaded.
C36_SourcesAgree ==
    /\ pathsPc \in {"by json", "by csv"}
          => SourceIs(by_json, IF corpus_file.exists THEN "attendance_json"
                               ELSE "daily_sheets")
    /\ pathsPc = "by csv"
          => /\ SourceIs(by_csv, "daily_sheets")
             /\ Forecasts(by_csv) = Forecasts(by_json)

(***************************************************************************)
(* Claims about the two copies of check_id_for_queue (SpecElig).           *)
(***************************************************************************)
\* What a caller of check_id_for_queue acts on: whether the identifier may
\* register and whether a warning came with it, or that the call raised.
Decision(outcome) ==
    IF outcome.kind = "Returned"
    THEN [raised |-> FALSE, can_register |-> outcome.can_register,
          warned |-> outcome.message.text /= ""]
    ELSE [raised |-> TRUE, can_register |-> FALSE, warned |-> FALSE]

\* C37: check_id_for_queue of handlers_join.py returns the same (eligible,
\* warning or none) decision as check_id_for_queue of
\* VLK_Zakrevskoho_81_BOT.py on the same identifier, earlier booking, last
\* status and summary table, an empty or unavailable table included.
C37_SameDecision ==
    eligPc = "handlers_join"
        => Decision(eligibility)
             = Decision(check_id_for_queue_BOT(queue_id, prev_booking,
                                               prev_status, stats_table,
                                               current_day))

(***************************************************************************)
(* Claims about the cancellation dialogue (SpecCancel).                    *)
(***************************************************************************)
\* cancel_record_get_id has just answered a well-formed identifier.
AfterCancel ==
    /\ cancel_asked.asked
    /\ cancel_reply \in {"cancellation created", "save failed",
                         "already requested", "not found"}

\* The latest records of the identifier in the queue the call met: no
\* record of the identifier was changed later.
LatestRecords ==
    {cancel_asked.seen[i] : i \in FirstSorted(cancel_asked.seen,
                                              cancel_asked.id)}

\* The date is not empty, or it is empty with the status 'Відхилено'.
MayBeCancelled(record) ==
    record.date /= EmptyText \/ record.status = Rejected

\* The cancellation record of the call for a record: empty date, status
\* 'На розгляді', the date of the record as the previous date.
CancellationOf(record) ==
    [ID |-> cancel_asked.id, date |-> EmptyText, notes |-> "",
     status |-> Pending, changed |-> cancel_asked.now,
     previous |-> record.date]

NothingAppended ==
    cancel_df = cancel_asked.seen /\ cancel_sheet = cancel_asked.seen

\* C31: cancel_record_get_id appends to the queue nothing, or one
\* cancellation record (empty date, status 'На розгляді', previous date
\* the date of the latest record of the identifier), and that only when
\* the latest record has a date or has none with the status 'Відхилено';
\* it appends it whenever that is so and the save succeeds.  A cancel
\* repeated while the cancellation is the latest record and still pending
\* appends nothing, and so does one of an identifier without a record.
C31_CancelAppendsOnce ==
    AfterCancel =>
       /\ \/ NothingAppended
          \/ \E record \in LatestRecords :
                /\ MayBeCancelled(record)
                /\ cancel_df = Append(cancel_asked.seen,
                                      CancellationOf(record))
                /\ cancel_sheet = cancel_df
       /\ (/\ LatestRecords /= {}
           /\ \A record \in LatestRecords : MayBeCancelled(record)
           /\ cancel_reply /= "save failed")
             => ~NothingAppended
       /\ (\A record \in LatestRecords :
              record.date = EmptyText /\ record.status = Pending)
             => NothingAppended

\* The second dialogue met the cancellation the first one appended a
\* second earlier for the booked date, still pending, and appended nothing.
C31_Witness ==
    /\ AfterCancel
    /\ cancel_calls = 2
    /\ Len(cancel_asked.seen) >= 2
    /\ cancel_asked.seen[Len(cancel_asked.seen)]
         = [ID |-> cancel_asked.id, date |-> EmptyText, notes |-> "",
            status |-> Pending, changed |-> cancel_asked.now - 1,
            previous |-> CancelDate]
    /\ cancel_asked.seen[Len(cancel_asked.seen) - 1].date = CancelDate
    /\ cancel_asked.seen[Len(cancel_asked.seen) - 1].ID = cancel_asked.id
    /\ cancel_reply = "already requested"
    /\ NothingAppended

(***************************************************************************)
(* Claims about the handlers of the visit poll (SpecPoll).                 *)
(***************************************************************************)
\* The last handler was one of the three that write a queue record.
WritesRecord ==
    poll_done.handler \in {"handle_poll_date_selection",
                           "handle_poll_custom_date",
                           "handle_poll_cancel_actions"}

\* C38: handle_poll_date_selection, handle_poll_custom_date and
\* handle_poll_cancel_actions change a status of the Active sheet only
\* when they saved the queue record; when the save fails the Active sheet
\* is as it was before the handler.
C38_ActiveSheetFollowsSave ==
    (WritesRecord /\ ~poll_done.saved) => active_sheet = poll_done.before

C39_OncePerSheet ==
    \A i, j \in 1 .. Len(sched_polls) :
       sched_polls[i].sheet = sched_polls[j].sheet => i = j

(***************************************************************************)
(* Claims about notify_status (SpecNotify).                                *)
(***************************************************************************)
\* notify_status has just run over a queue it could read.
Notified == notify_last.ran /\ notify_last.looked

\* The identifiers of the queue the run met.
QueuedIds ==
    {notify_last.queue[i].ID : i \in 1 .. Len(notify_last.queue)}

\* The latest record of an identifier in the queue the run met: the one
\* changed last (a 'Змінено' that is no time counts as the earliest), the
\* first of them in the sheet when several were changed at the same time.
LatestOf(id) ==
    LET mine == {i \in 1 .. Len(notify_last.queue) :
                    notify_last.queue[i].ID = id}
        last == CHOOSE t \in {notify_last.queue[i].changed : i \in mine} :
                   \A i \in mine : notify_last.queue[i].changed <= t
    IN  notify_last.queue[CHOOSE i \in mine :
                             /\ notify_last.queue[i].changed = last
                             /\ \A j \in mine :
                                   notify_last.queue[j].changed = last
                                      => i <= j]

\* The status, the date or 'Змінено' of the latest record is not what the
\* status file held before the run, or the file held nothing for it.
DiffersFromSaved(id) ==
    \/ ~notify_last.before[id].known
    \/ <<LatestOf(id).status, LatestOf(id).date, LatestOf(id).changed>>
         /= <<notify_last.before[id].status, notify_last.before[id].date,
              notify_last.before[id].modified>>

============================================================================
